---- MODULE Spec2Model ----
(***************************************************************************)
(* pg_backup_auditor: WAL availability check, metadata validation, format  *)
(* detection / scanning and the check command, modelled from the C source. *)
(*                                                                         *)
(* Integer widths: TLC integers are 32-bit, so the two uint32_t fields of  *)
(* a WALSegmentName are kept as modular values of scaled width.  seg_id is *)
(* SegIdBits wide (32 in the program); log_id is LogIdBits wide (32 in the *)
(* program).  The WAL segment size is the program's own 16 MiB.            *)
(***************************************************************************)
EXTENDS Integers, Sequences, FiniteSets, TLC

VARIABLES
    pc,            \* position of the modelled function
    fs,            \* the file system: [dirs, files, locked, content, mtime]
    cwd,           \* the process's working directory (a resolved path)
    backup_dir,    \* the path string handed to scan_backup_directory
    max_depth,
    stack,         \* pending calls of scan_directory_recursive, innermost first
    visited,       \* history: the directories scan_directory_recursive opened
    backup,        \* BackupInfo handed to a validator
    wal_info,      \* WALArchiveInfo: [segment_count, segments]
    start_seg,     \* check_wal_availability locals
    stop_seg,
    current_seg,
    missing_count,
    result,        \* ValidationResult under construction / returned
    backups,       \* the inventory returned by scan_backup_directory
    opts,          \* CheckOptions
    current,       \* cmd_check_main: position in the inventory list
    backup_count,
    backups_validated,
    backups_skipped,
    total_errors,
    total_warnings,
    validation_log,   \* history: the validation calls cmd_check_main made
    verdict,          \* the "Result:" line printed
    exit_code,
    lsn_str,       \* the text handed to parse_lsn or written by format_lsn
    lsn_val,       \* the XLogRecPtr parse_lsn stores or format_lsn is given
    wal_name,      \* the name handed to parse_wal_filename
    seg_args,      \* the arguments of lsn_to_seg: [lsn, timeline, wal_segment_size]
    seg_out,       \* the WALSegmentName lsn_to_seg or parse_wal_filename fills
    ret,           \* what the function called last returned
    given,         \* history: the input the run started from
    argv,          \* main: the command line, argv[1] the program name
    use_color,     \* the colour switch of the logging module
    printed,       \* history: the backup rows the list command printed
    stats          \* OutputStats of output_backups: [count]

fsVars == <<fs, cwd>>

scanVars == <<backup_dir, max_depth, stack, visited>>

valVars == <<backup, result>>

walVars == <<wal_info, start_seg, stop_seg, current_seg, missing_count>>

checkVars == <<backups, opts, current, backup_count, backups_validated, backups_skipped,
               total_errors, total_warnings, validation_log, verdict, exit_code>>

algVars == <<lsn_str, lsn_val, wal_name, seg_args, seg_out, ret, given>>

cliVars == <<argv, use_color, printed, stats>>

vars == <<pc, fsVars, scanVars, valVars, walVars, checkVars, algVars, cliVars>>

(***************************************************************************)
(* Bounds of the model.                                                    *)
(***************************************************************************)
SegIdBits == 1          \* modelled width of uint32_t seg_id
MaxSegNo == 2           \* LSNs are drawn from segments 0..MaxSegNo
MaxTimeline == 2        \* timelines 1..MaxTimeline appear in archives
MaxTime == 2            \* time_t values 0..MaxTime

(***************************************************************************)
(* Program constants.                                                      *)
(***************************************************************************)
WalSegSize == 16777216                  \* 0x1000000
LogIdBits == 16                         \* modelled width of uint32_t log_id
SegIdModulus == 2 ^ SegIdBits           \* 0x100000000ULL in the program
\* a log_id as wide as the largest log_id an LSN gives, and no wider
LogIdModulus_noHeadroom == 2 ^ 6

LogIdModulus == 2 ^ LogIdBits

BACKUP_STATUS_OK == "OK"
BACKUP_STATUS_RUNNING == "RUNNING"
BACKUP_STATUS_CORRUPT == "CORRUPT"
BACKUP_STATUS_ERROR == "ERROR"
BACKUP_STATUS_ORPHAN == "ORPHAN"
BACKUP_STATUS_WARNING == "WARNING"

BACKUP_TYPE_FULL == "FULL"
BACKUP_TYPE_INCREMENTAL == "INCREMENTAL"
BACKUP_TYPE_PAGE == "PAGE"
BACKUP_TYPE_DELTA == "DELTA"
BACKUP_TYPE_PTRACK == "PTRACK"

BACKUP_TOOL_UNKNOWN == "unknown"
BACKUP_TOOL_PG_BASEBACKUP == "pg_basebackup"
BACKUP_TOOL_PG_PROBACKUP == "pg_probackup"

\* a BackupInfo as calloc / memset(0) leaves it; a string is a sequence of
\* tokens, the empty string is <<>>
ZeroBackupInfo ==
    [backup_id |-> <<>>, node_name |-> <<>>, instance_name |-> <<>>,
     type |-> BACKUP_TYPE_FULL, tool |-> BACKUP_TOOL_UNKNOWN, status |-> BACKUP_STATUS_OK,
     start_time |-> 0, end_time |-> 0, start_lsn |-> 0, stop_lsn |-> 0,
     timeline |-> 0, pg_version |-> 0, backup_path |-> <<>>, wal_start_file |-> <<>>]

NoSeg == [timeline |-> 0, log_id |-> 0, seg_id |-> 0]

NoResult == [status |-> "none", error_count |-> 0, warning_count |-> 0,
             errors |-> <<>>, warnings |-> <<>>]

(***************************************************************************)
(* LSN / segment algebra (xlog.c).                                         *)
(***************************************************************************)
lsn_to_seg_dropsLogId(lsn, timeline, wal_segment_size) ==
    [timeline |-> timeline, log_id |-> 0,
     seg_id |-> (lsn \div (IF wal_segment_size = 0 THEN WalSegSize ELSE wal_segment_size))
                    % SegIdModulus]

lsn_to_seg_sizeFixed(lsn, timeline, wal_segment_size) ==
    [timeline |-> timeline,
     log_id |-> ((lsn \div WalSegSize) \div SegIdModulus) % LogIdModulus,
     seg_id |-> (lsn \div WalSegSize) % SegIdModulus]

lsn_to_seg(lsn, timeline, wal_segment_size) ==
    LET size == IF wal_segment_size = 0 THEN WalSegSize ELSE wal_segment_size
        segment_number == lsn \div size
    IN  [timeline |-> timeline,
         log_id   |-> (segment_number \div SegIdModulus) % LogIdModulus,
         seg_id   |-> segment_number % SegIdModulus]

HexDigits == <<"0","1","2","3","4","5","6","7","8","9","A","B","C","D","E","F">>

LowerHexDigits == <<"0","1","2","3","4","5","6","7","8","9","a","b","c","d","e","f">>

\* printf("%08X", n) for a 32-bit n: eight upper-case hex digits, zero padded
Hex8(n) == [i \in 1..8 |-> HexDigits[((n \div (16 ^ (8 - i))) % 16) + 1]]

compare_wal_segments(a, b) ==
    IF a.timeline # b.timeline THEN (IF a.timeline < b.timeline THEN -1 ELSE 1)
    ELSE IF a.log_id # b.log_id THEN (IF a.log_id < b.log_id THEN -1 ELSE 1)
    ELSE IF a.seg_id # b.seg_id THEN (IF a.seg_id < b.seg_id THEN -1 ELSE 1)
    ELSE 0

\* qsort(segments, ..., compare_wal_segments) applied to a set of distinct names
RECURSIVE SortSegments(_)
SortSegments(S) ==
    IF S = {} THEN <<>>
    ELSE LET m == CHOOSE x \in S : \A y \in S : compare_wal_segments(x, y) <= 0
         IN  <<m>> \o SortSegments(S \ {m})

(***************************************************************************)
(* wal_validator.c                                                         *)
(***************************************************************************)
segment_exists_in_archive_noTimeline(seg, wi) ==
    \E i \in 1..wi.segment_count :
        /\ wi.segments[i].log_id = seg.log_id
        /\ wi.segments[i].seg_id = seg.seg_id

segment_exists_in_archive_skipLast(seg, wi) ==
    \E i \in 1..(wi.segment_count - 1) :
        /\ wi.segments[i].timeline = seg.timeline
        /\ wi.segments[i].log_id = seg.log_id
        /\ wi.segments[i].seg_id = seg.seg_id

segment_exists_in_archive(seg, wi) ==
    \E i \in 1..wi.segment_count :
        /\ wi.segments[i].timeline = seg.timeline
        /\ wi.segments[i].log_id = seg.log_id
        /\ wi.segments[i].seg_id = seg.seg_id

MissingSegmentMessage(seg) ==
    <<"Missing WAL segment: ">> \o Hex8(seg.timeline) \o Hex8(seg.log_id) \o Hex8(seg.seg_id)

AbortedMessage == <<"WAL range check aborted: too many segments">>

NoLsnMessage == <<"Backup has no LSN information">>

\* lines 104-108: the result returned for a backup without LSN information
NoLsnResult_asError ==
    [status |-> BACKUP_STATUS_ERROR, error_count |-> 1, warning_count |-> 0,
     errors |-> <<NoLsnMessage>>, warnings |-> <<>>]

NoLsnResult ==
    [status |-> BACKUP_STATUS_WARNING, error_count |-> 0, warning_count |-> 1,
     errors |-> <<>>, warnings |-> <<NoLsnMessage>>]

\* as WalLoopCond, but only the seg_id fields are compared
WalLoopCond_segIdOnly(cur, stop) == cur.seg_id <= stop.seg_id

\* as WalLoopCond, but only the log_id fields are compared
WalLoopCond_logIdOnly(cur, stop) == cur.log_id <= stop.log_id

\* while-condition of the enumeration loop
WalLoopCond(cur, stop) ==
    \/ cur.log_id < stop.log_id
    \/ (cur.log_id = stop.log_id /\ cur.seg_id <= stop.seg_id)

\* lines 87-125: result allocation, the no-LSN early return, segment conversion
CheckWalEntry ==
    /\ pc = "wal_entry"
    /\ IF backup.start_lsn = 0 /\ backup.stop_lsn = 0
       THEN /\ result' = NoLsnResult
            /\ pc' = "wal_done"
            /\ UNCHANGED <<start_seg, stop_seg, current_seg>>
       ELSE /\ result' = [status |-> BACKUP_STATUS_OK, error_count |-> 0,
                          warning_count |-> 0, errors |-> <<>>, warnings |-> <<>>]
            /\ start_seg' = lsn_to_seg(backup.start_lsn, backup.timeline, WalSegSize)
            /\ stop_seg' = lsn_to_seg(backup.stop_lsn, backup.timeline, WalSegSize)
            /\ current_seg' = start_seg'
            /\ pc' = "wal_loop"
    /\ missing_count' = 0
    /\ UNCHANGED <<cliVars, algVars, backup, wal_info, fsVars, scanVars, checkVars>>

\* lines 127-165: one iteration of the enumeration loop
CheckWalLoop ==
    /\ pc = "wal_loop"
    /\ WalLoopCond(current_seg, stop_seg)
    /\ LET missing == ~segment_exists_in_archive(current_seg, wal_info)
           r1 == IF missing
                 THEN [result EXCEPT !.error_count = @ + 1,
                                     !.errors = Append(@, MissingSegmentMessage(current_seg))]
                 ELSE result
           seg1 == (current_seg.seg_id + 1) % SegIdModulus
           log1 == IF seg1 = 0 THEN (current_seg.log_id + 1) % LogIdModulus
                   ELSE current_seg.log_id
           abort == log1 > (stop_seg.log_id + 1) % LogIdModulus
       IN  /\ missing_count' = IF missing THEN missing_count + 1 ELSE missing_count
           /\ current_seg' = [current_seg EXCEPT !.seg_id = seg1, !.log_id = log1]
           /\ result' = IF abort
                        THEN [r1 EXCEPT !.error_count = @ + 1,
                                        !.errors = Append(@, AbortedMessage)]
                        ELSE r1
           /\ pc' = IF abort THEN "wal_final" ELSE "wal_loop"
    /\ UNCHANGED <<cliVars, algVars, backup, wal_info, start_seg, stop_seg, fsVars, scanVars, checkVars>>

\* lines 167-178: final status
CheckWalFinish ==
    /\ \/ pc = "wal_final"
       \/ (pc = "wal_loop" /\ ~WalLoopCond(current_seg, stop_seg))
    /\ result' = IF missing_count > 0
                 THEN [result EXCEPT !.status = BACKUP_STATUS_ERROR]
                 ELSE result
    /\ pc' = "wal_done"
    /\ UNCHANGED <<cliVars, algVars, backup, walVars, fsVars, scanVars, checkVars>>

(***************************************************************************)
(* Inputs of the WAL availability check.                                   *)
(***************************************************************************)
Timelines == 1..MaxTimeline

\* 0 ("unknown"), the last byte of segment 0, the first byte of segments 1..MaxSegNo
Lsns == {0, WalSegSize - 1} \cup {s * WalSegSize : s \in 1..MaxSegNo}

ArchivePool == {lsn_to_seg(s * WalSegSize, t, WalSegSize) : s \in 0..MaxSegNo, t \in Timelines}

WalBackups ==
    {[ZeroBackupInfo EXCEPT !.backup_id = <<"test-backup">>, !.start_lsn = a,
                            !.stop_lsn = b, !.timeline = t] :
        a \in Lsns, b \in Lsns, t \in Timelines}

WalInfoOf(S) == [segment_count |-> Cardinality(S), segments |-> SortSegments(S)]

\* a file system holding only the root directory
EmptyFs == [dirs |-> {<<>>}, files |-> {}, locked |-> {}, content |-> <<>>, mtime |-> 0]

\* the variables of scan_backup_directory before it runs
IdleScan ==
    /\ backup_dir = <<>>
    /\ max_depth = -1
    /\ stack = <<>>
    /\ visited = <<>>

\* a NULL char pointer
NullStr == <<"(null)">>

NoOpts == [backup_id |-> NullStr, level |-> 1, skip_wal |-> FALSE]

\* the variables of cmd_check_main before it runs
IdleCheck ==
    /\ backups = <<>>
    /\ opts = NoOpts
    /\ current = 0
    /\ backup_count = 0
    /\ backups_validated = 0
    /\ backups_skipped = 0
    /\ total_errors = 0
    /\ total_warnings = 0
    /\ validation_log = <<>>
    /\ verdict = "none"
    /\ exit_code = -1

\* an XLogRecPtr as its two 32-bit words
ZeroLsn == [hi |-> 0, lo |-> 0]

\* the variables of the LSN / segment algebra when none of it runs
IdleAlg ==
    /\ lsn_str = <<>>
    /\ lsn_val = ZeroLsn
    /\ wal_name = <<>>
    /\ seg_args = [lsn |-> 0, timeline |-> 0, wal_segment_size |-> 0]
    /\ seg_out = NoSeg
    /\ ret = "none"
    /\ given = <<>>

\* the variables of main and of the list command before they run
IdleCli ==
    /\ argv = <<>>
    /\ use_color = TRUE
    /\ printed = <<>>
    /\ stats = [count |-> 0]

\* the locals of check_wal_availability before it runs
IdleWalLocals ==
    /\ start_seg = NoSeg
    /\ stop_seg = NoSeg
    /\ current_seg = NoSeg
    /\ missing_count = 0

InitWal ==
    /\ pc = "wal_entry"
    /\ fs = EmptyFs
    /\ cwd = <<>>
    /\ IdleScan
    /\ backup \in WalBackups
    /\ wal_info \in {WalInfoOf(S) : S \in SUBSET ArchivePool}
    /\ IdleWalLocals
    /\ IdleAlg
    /\ IdleCli
    /\ result = NoResult
    /\ IdleCheck

NextWal == CheckWalEntry \/ CheckWalLoop \/ CheckWalFinish

SpecWal == InitWal /\ [][NextWal]_vars

(***************************************************************************)
(* Properties of check_wal_availability.                                   *)
(***************************************************************************)
HexDigitValue(c) == CHOOSE v \in 0..15 : HexDigits[v + 1] = c \/ LowerHexDigits[v + 1] = c

RECURSIVE HexValue(_)
HexValue(digits) ==
    IF digits = <<>> THEN 0
    ELSE HexValue(SubSeq(digits, 1, Len(digits) - 1)) * 16 + HexDigitValue(digits[Len(digits)])

IsHexText(digits) == \A i \in 1..Len(digits) : \E v \in 0..15 : HexDigits[v + 1] = digits[i]

\* the segment an error text names: the 24 characters after the fixed prefix
SegmentNamed(msg) ==
    [timeline |-> HexValue(SubSeq(msg, 2, 9)),
     log_id   |-> HexValue(SubSeq(msg, 10, 17)),
     seg_id   |-> HexValue(SubSeq(msg, 18, 25))]

ArchiveSet(wi) == {wi.segments[i] : i \in 1..Len(wi.segments)}

\* every segment from the start LSN's to the stop LSN's, 16 MiB each
RequiredSegments(b) ==
    {[timeline |-> b.timeline, log_id |-> n \div SegIdModulus, seg_id |-> n % SegIdModulus] :
        n \in (b.start_lsn \div WalSegSize)..(b.stop_lsn \div WalSegSize)}

MissingSegments(b, wi) == RequiredSegments(b) \ ArchiveSet(wi)

HasLsn(b) == ~(b.start_lsn = 0 /\ b.stop_lsn = 0)

\* C1: for a backup with LSNs the result holds exactly one error per required
\* segment absent from the inventory and no other error; each error text is
\* the prefix plus 24 hex digits naming a distinct missing segment; with k >= 1
\* missing segments error_count = k and the status is ERROR.
C1_OneErrorPerMissingSegment ==
    (pc = "wal_done" /\ HasLsn(backup)) =>
        LET missing == MissingSegments(backup, wal_info)
            k == Cardinality(missing)
        IN  /\ result.error_count = k
            /\ Len(result.errors) = k
            /\ \A i \in 1..k :
                  /\ Len(result.errors[i]) = 25
                  /\ result.errors[i][1] = "Missing WAL segment: "
                  /\ IsHexText(SubSeq(result.errors[i], 2, 25))
            /\ {SegmentNamed(result.errors[i]) : i \in 1..k} = missing
            /\ \A i, j \in 1..k : i # j => result.errors[i] # result.errors[j]
            /\ (k >= 1 => result.status = BACKUP_STATUS_ERROR)

C1_Witness ==
    /\ pc = "wal_done"
    /\ HasLsn(backup)
    /\ Cardinality(MissingSegments(backup, wal_info)) >= 2
    /\ Cardinality(RequiredSegments(backup) \cap ArchiveSet(wal_info)) >= 1
    /\ \E s \in ArchiveSet(wal_info) : s.timeline # backup.timeline
    /\ result.error_count >= 2

\* C2: when the inventory holds every segment of the required range on the
\* backup's timeline, the result is OK with no error, whatever else it holds.
C2_FullRangeIsOk ==
    (pc = "wal_done" /\ HasLsn(backup) /\ RequiredSegments(backup) \subseteq ArchiveSet(wal_info)) =>
        (result.status = BACKUP_STATUS_OK /\ result.error_count = 0)

C2_Witness ==
    /\ pc = "wal_done"
    /\ HasLsn(backup)
    /\ Cardinality(RequiredSegments(backup)) >= 3
    /\ RequiredSegments(backup) \subseteq ArchiveSet(wal_info)
    /\ \E s \in ArchiveSet(wal_info) : s.timeline # backup.timeline
    /\ result.status = BACKUP_STATUS_OK

\* C3: a backup with start_lsn = stop_lsn = 0 gets exactly one warning, no
\* error and status WARNING, for every inventory and timeline.
C3_NoLsnIsOneWarning ==
    (pc = "wal_done" /\ backup.start_lsn = 0 /\ backup.stop_lsn = 0) =>
        /\ result.warning_count = 1
        /\ Len(result.warnings) = 1
        /\ result.error_count = 0
        /\ result.errors = <<>>
        /\ result.status = BACKUP_STATUS_WARNING

C3_Witness ==
    /\ pc = "wal_done"
    /\ backup.start_lsn = 0
    /\ backup.stop_lsn = 0
    /\ wal_info.segment_count > 0
    /\ result.warning_count = 1

(***************************************************************************)
(* file_utils.c.  A path string is a sequence of tokens: "/" is the        *)
(* separator, every other token is one name.  The file system maps         *)
(* resolved paths (sequences of names from the root) to directories and    *)
(* files.                                                                  *)
(***************************************************************************)
RECURSIVE PathNames(_)
PathNames(path) ==
    IF path = <<>> THEN <<>>
    ELSE IF path[1] \in {"/", "."} THEN PathNames(Tail(path))
    ELSE <<path[1]>> \o PathNames(Tail(path))

\* what the kernel resolves a path string to; the empty string resolves to nothing
Resolve(path) ==
    IF path # <<>> /\ path[1] = "/" THEN PathNames(path) ELSE cwd \o PathNames(path)

file_exists(path) == path # <<>> /\ Resolve(path) \in (fs.dirs \cup fs.files)

is_directory(path) == path # <<>> /\ Resolve(path) \in fs.dirs

path_join(path1, path2) ==
    LET p1 == IF Len(path1) > 0 /\ path1[Len(path1)] # "/" THEN Append(path1, "/") ELSE path1
        p2 == IF path2 # <<>> /\ path2[1] = "/" THEN Tail(path2) ELSE path2
    IN  p1 \o p2

(***************************************************************************)
(* backup_validator.c: validate_backup_metadata                            *)
(***************************************************************************)
DecDigits == <<"0","1","2","3","4","5","6","7","8","9">>

\* printf("%" PRIu64, n) / printf("%ld", n) for n >= 0
RECURSIVE Dec(_)
Dec(n) == IF n < 10 THEN <<DecDigits[n + 1]>> ELSE Append(Dec(n \div 10), DecDigits[(n % 10) + 1])

add_error(r, message) ==
    [r EXCEPT !.errors = Append(@, message), !.error_count = @ + 1]

add_warning_asError(r, message) ==
    [r EXCEPT !.errors = Append(@, message), !.error_count = @ + 1]

add_warning(r, message) ==
    [r EXCEPT !.warnings = Append(@, message), !.warning_count = @ + 1]

LsnRangeInvalid_reversed(info) ==
    info.start_lsn > 0 /\ info.stop_lsn > 0 /\ info.start_lsn <= info.stop_lsn

\* line 937
LsnRangeInvalid(info) ==
    info.start_lsn > 0 /\ info.stop_lsn > 0 /\ info.start_lsn >= info.stop_lsn

validate_backup_metadata(info) ==
    LET r0 == [status |-> BACKUP_STATUS_OK, error_count |-> 0, warning_count |-> 0,
               errors |-> <<>>, warnings |-> <<>>]
        r1 == IF info.backup_id = <<>> THEN add_error(r0, <<"Missing backup_id">>) ELSE r0
        r2 == IF info.backup_path = <<>> THEN add_error(r1, <<"Missing backup_path">>) ELSE r1
        r3 == IF info.backup_path # <<>> /\ ~is_directory(info.backup_path)
              THEN add_error(r2, <<"Backup path does not exist: ", info.backup_path>>)
              ELSE r2
        r4 == IF info.start_time = 0 THEN add_warning(r3, <<"Missing start_time">>) ELSE r3
        r5 == IF info.end_time = 0 /\ info.status = BACKUP_STATUS_OK
              THEN add_warning(r4, <<"Missing end_time for completed backup">>)
              ELSE r4
        r6 == IF info.start_time > 0 /\ info.end_time > 0 /\ info.start_time >= info.end_time
              THEN add_error(r5, <<"Invalid timestamps: start_time (", Dec(info.start_time),
                                   ") >= end_time (", Dec(info.end_time), ")">>)
              ELSE r5
        r7 == IF LsnRangeInvalid(info)
              THEN add_error(r6, <<"Invalid LSN range: start_lsn (", Dec(info.start_lsn),
                                   ") >= stop_lsn (", Dec(info.stop_lsn), ")">>)
              ELSE r6
        r8 == IF info.timeline = 0 THEN add_warning(r7, <<"Missing timeline ID">>) ELSE r7
        r9 == IF info.pg_version = 0 THEN add_warning(r8, <<"Missing PostgreSQL version">>) ELSE r8
    IN  [r9 EXCEPT !.status = IF r9.error_count > 0 THEN BACKUP_STATUS_ERROR
                              ELSE IF r9.warning_count > 0 THEN BACKUP_STATUS_WARNING
                              ELSE BACKUP_STATUS_OK]

ValidateMetadata ==
    /\ pc = "meta_entry"
    /\ result' = validate_backup_metadata(backup)
    /\ pc' = "meta_done"
    /\ UNCHANGED <<cliVars, algVars, backup, fsVars, scanVars, walVars, checkVars>>

\* one backup directory /backups/b1
MetaFs == [dirs |-> {<<>>, <<"backups">>, <<"backups", "b1">>}, files |-> {},
           locked |-> {}, content |-> <<>>, mtime |-> 0]

BackupStatuses ==
    {BACKUP_STATUS_OK, BACKUP_STATUS_RUNNING, BACKUP_STATUS_CORRUPT,
     BACKUP_STATUS_ERROR, BACKUP_STATUS_ORPHAN, BACKUP_STATUS_WARNING}

MetaBackups ==
    {[ZeroBackupInfo EXCEPT !.backup_id = id, !.backup_path = p, !.status = st,
                            !.start_time = t1, !.end_time = t2,
                            !.start_lsn = a, !.stop_lsn = b,
                            !.timeline = tl, !.pg_version = v] :
        id \in {<<>>, <<"20240108-100530">>},
        p \in {<<>>, <<"/", "backups", "/", "b1">>, <<"/", "backups", "/", "gone">>},
        st \in BackupStatuses, t1 \in 0..MaxTime, t2 \in 0..MaxTime,
        a \in Lsns, b \in Lsns, tl \in 0..MaxTimeline, v \in {0, 160000}}

InitMeta ==
    /\ pc = "meta_entry"
    /\ fs = MetaFs
    /\ cwd = <<>>
    /\ IdleScan
    /\ backup \in MetaBackups
    /\ wal_info = WalInfoOf({})
    /\ IdleWalLocals
    /\ IdleAlg
    /\ IdleCli
    /\ result = NoResult
    /\ IdleCheck

NextMeta == ValidateMetadata

SpecMeta == InitMeta /\ [][NextMeta]_vars

(***************************************************************************)
(* Properties of validate_backup_metadata.                                 *)
(***************************************************************************)
DecDigitValue(c) == CHOOSE v \in 0..9 : DecDigits[v + 1] = c

RECURSIVE DecValue(_)
DecValue(digits) ==
    IF digits = <<>> THEN 0
    ELSE DecValue(SubSeq(digits, 1, Len(digits) - 1)) * 10 + DecDigitValue(digits[Len(digits)])

OtherFieldsValid(info) ==
    /\ info.backup_id # <<>>
    /\ is_directory(info.backup_path)
    /\ 0 < info.start_time
    /\ info.start_time < info.end_time
    /\ info.timeline # 0
    /\ info.pg_version # 0

\* C4: a record that is valid except that 0 < stop_lsn < start_lsn gets exactly
\* one error, the error text carries both LSN values, and the status is ERROR.
C4_StopBeforeStartIsOneError ==
    (pc = "meta_done" /\ OtherFieldsValid(backup)
        /\ 0 < backup.stop_lsn /\ backup.stop_lsn < backup.start_lsn) =>
        /\ result.error_count = 1
        /\ Len(result.errors) = 1
        /\ Len(result.errors[1]) = 5
        /\ result.errors[1][1] = "Invalid LSN range: start_lsn ("
        /\ DecValue(result.errors[1][2]) = backup.start_lsn
        /\ DecValue(result.errors[1][4]) = backup.stop_lsn
        /\ result.status = BACKUP_STATUS_ERROR

C4_Witness ==
    /\ pc = "meta_done"
    /\ OtherFieldsValid(backup)
    /\ 0 < backup.stop_lsn
    /\ backup.stop_lsn < backup.start_lsn
    /\ result.error_count = 1

\* the number of conditions of the tuple S of truth values that hold
HowMany(S) == Cardinality({c \in DOMAIN S : S[c]})

TimeOrderViolated(info) ==
    info.start_time > 0 /\ info.end_time > 0 /\ info.start_time >= info.end_time

LsnOrderViolated(info) ==
    info.start_lsn > 0 /\ info.stop_lsn > 0 /\ info.start_lsn >= info.stop_lsn

EndTimeMissing(info) == info.end_time = 0 /\ info.status = BACKUP_STATUS_OK

\* C11 as claimed: every absent required field (identifier, path, start time,
\* end time of a completed backup) is a warning and never an error; the only
\* errors are the two ordering violations; a zero timeline and a zero engine
\* version are one warning each.
C11_AbsentFieldsAreWarnings ==
    pc = "meta_done" =>
        /\ result.error_count =
              HowMany(<<TimeOrderViolated(backup), LsnOrderViolated(backup)>>)
        /\ result.warning_count =
              HowMany(<<backup.backup_id = <<>>, backup.backup_path = <<>>,
                        backup.start_time = 0, EndTimeMissing(backup),
                        backup.timeline = 0, backup.pg_version = 0>>)

\* C11 amended: an absent start time, an absent end time of a completed
\* backup, a zero timeline and a zero engine version are one warning each and
\* never an error; an absent identifier, an absent path, a path that is not a
\* directory and the two ordering violations are one error each; nothing else
\* is reported, and the status is ERROR with any error, else WARNING with any
\* warning, else OK.
C11_MetadataFindings ==
    pc = "meta_done" =>
        /\ result.error_count =
              HowMany(<<backup.backup_id = <<>>, backup.backup_path = <<>>,
                        backup.backup_path # <<>> /\ ~is_directory(backup.backup_path),
                        TimeOrderViolated(backup), LsnOrderViolated(backup)>>)
        /\ result.warning_count =
              HowMany(<<backup.start_time = 0, EndTimeMissing(backup),
                        backup.timeline = 0, backup.pg_version = 0>>)
        /\ Len(result.errors) = result.error_count
        /\ Len(result.warnings) = result.warning_count
        /\ result.status = IF result.error_count > 0 THEN BACKUP_STATUS_ERROR
                           ELSE IF result.warning_count > 0 THEN BACKUP_STATUS_WARNING
                           ELSE BACKUP_STATUS_OK

\* a record without identifier and start time, on timeline zero: one error
\* and two warnings
C11_Witness ==
    /\ pc = "meta_done"
    /\ backup.backup_id = <<>>
    /\ is_directory(backup.backup_path)
    /\ backup.start_time = 0
    /\ backup.end_time > 0
    /\ backup.timeline = 0
    /\ backup.pg_version # 0
    /\ ~LsnOrderViolated(backup)
    /\ result.error_count = 1
    /\ result.warning_count = 2

(***************************************************************************)
(* cmd_check.c: cmd_check_main                                             *)
(***************************************************************************)
VALIDATION_LEVEL_BASIC == 0
VALIDATION_LEVEL_STANDARD == 1
VALIDATION_LEVEL_CHECKSUMS == 2
VALIDATION_LEVEL_FULL == 3

EXIT_SUCCESS == 0
EXIT_VALIDATION_FAILED == 2
EXIT_NO_BACKUPS_FOUND == 3

ShouldSkip_errorOnly(b) == b.status = BACKUP_STATUS_ERROR

\* line 236
ShouldSkip(b) == b.status = BACKUP_STATUS_ERROR \/ b.status = BACKUP_STATUS_CORRUPT

FilteredOut_idIgnored(b) == FALSE

\* lines 220-221: the --backup-id filter rejects this record
FilteredOut(b) == opts.backup_id # NullStr /\ b.backup_id # opts.backup_id

\* lines 193-215: the scan result and the counters
CheckStart ==
    /\ pc = "check_start"
    /\ IF backups = <<>>
       THEN /\ exit_code' = EXIT_NO_BACKUPS_FOUND
            /\ pc' = "check_done"
            /\ UNCHANGED current
       ELSE /\ current' = 1
            /\ pc' = "check_loop"
            /\ UNCHANGED exit_code
    /\ backup_count' = 0
    /\ backups_validated' = 0
    /\ backups_skipped' = 0
    /\ total_errors' = 0
    /\ total_warnings' = 0
    /\ UNCHANGED <<cliVars, algVars, backups, opts, validation_log, verdict, fsVars, scanVars, valVars, walVars>>

\* lines 217-299: one iteration of the loop over the inventory
CheckLoop ==
    /\ pc = "check_loop"
    /\ current <= Len(backups)
    /\ LET b == backups[current]
       IN  IF FilteredOut(b)
           THEN UNCHANGED <<backup_count, backups_validated, backups_skipped,
                            total_errors, total_warnings, validation_log>>
           ELSE IF ShouldSkip(b)
           THEN /\ backup_count' = backup_count + 1
                /\ backups_skipped' = backups_skipped + 1
                /\ UNCHANGED <<backups_validated, total_errors, total_warnings, validation_log>>
           ELSE LET metadata_result == validate_backup_metadata(b)
                    standard == opts.level >= VALIDATION_LEVEL_STANDARD
                IN  /\ backup_count' = backup_count + 1
                    /\ backups_validated' = backups_validated + 1
                    /\ UNCHANGED backups_skipped
                    \* levels 1, 3 and 4 only log "not yet implemented"
                    /\ total_errors' = IF standard
                                       THEN total_errors + metadata_result.error_count
                                       ELSE total_errors
                    /\ total_warnings' = IF standard
                                         THEN total_warnings + metadata_result.warning_count
                                         ELSE total_warnings
                    /\ validation_log' = IF standard
                                         THEN Append(validation_log,
                                                     [index |-> current, step |-> "metadata"])
                                         ELSE validation_log
    /\ current' = current + 1
    /\ UNCHANGED <<cliVars, algVars, backups, opts, verdict, exit_code, pc, fsVars, scanVars, valVars, walVars>>

CheckVerdict(errors, warnings, validated, skipped) ==
    IF errors > 0 THEN "FAILED"
    ELSE IF warnings > 0 THEN "WARNING"
    ELSE IF validated = 0 /\ skipped > 0 THEN "NO VALIDATION PERFORMED"
    ELSE "OK"

CheckExitCode_warningIsSuccess(errors, warnings) ==
    IF errors > 0 THEN EXIT_VALIDATION_FAILED ELSE EXIT_SUCCESS

CheckExitCode(errors, warnings) ==
    IF errors > 0 THEN EXIT_VALIDATION_FAILED
    ELSE IF warnings > 0 THEN EXIT_VALIDATION_FAILED
    ELSE EXIT_SUCCESS

\* lines 301-362: summary, verdict and exit code
CheckSummary ==
    /\ pc = "check_loop"
    /\ current > Len(backups)
    /\ verdict' = CheckVerdict(total_errors, total_warnings, backups_validated, backups_skipped)
    /\ exit_code' = CheckExitCode(total_errors, total_warnings)
    /\ pc' = "check_done"
    /\ UNCHANGED <<cliVars, algVars, backups, opts, current, backup_count, backups_validated, backups_skipped,
                   total_errors, total_warnings, validation_log, fsVars, scanVars, valVars, walVars>>

(***************************************************************************)
(* Inputs of the check command: inventories of at most MaxBackups records. *)
(***************************************************************************)
MaxBackups == 2

GoodStartLsn == WalSegSize - 1

GoodStopLsn == 2 * WalSegSize

\* a record as a scan builds it: existing path, identifier, times, version
ScannedRecord(id, st, a, b, tl) ==
    [ZeroBackupInfo EXCEPT !.backup_id = id, !.status = st,
                           !.backup_path = <<"/", "backups", "/", "b1">>,
                           !.tool = BACKUP_TOOL_PG_PROBACKUP,
                           !.start_time = 1, !.end_time = 2,
                           !.start_lsn = a, !.stop_lsn = b,
                           !.timeline = tl, !.pg_version = 160000]

CheckRecords ==
    {ScannedRecord(id, BACKUP_STATUS_OK, GoodStartLsn, GoodStopLsn, 1) : id \in {<<"A">>, <<"B">>}}
    \cup {ScannedRecord(id, BACKUP_STATUS_OK, GoodStartLsn, GoodStopLsn, 0) : id \in {<<"A">>, <<"B">>}}
    \cup {ScannedRecord(id, BACKUP_STATUS_OK, GoodStopLsn, GoodStartLsn, 1) : id \in {<<"A">>, <<"B">>}}
    \cup {ScannedRecord(id, BACKUP_STATUS_RUNNING, 0, 0, 1) : id \in {<<"A">>, <<"B">>}}
    \cup {ScannedRecord(id, BACKUP_STATUS_ERROR, GoodStartLsn, GoodStopLsn, 0) : id \in {<<"A">>, <<"B">>}}
    \cup {ScannedRecord(id, BACKUP_STATUS_CORRUPT, GoodStopLsn, GoodStartLsn, 1) : id \in {<<"A">>, <<"B">>}}

Inventories == UNION {[1..n -> CheckRecords] : n \in 0..MaxBackups}

CheckOptions ==
    [backup_id : {NullStr, <<"A">>, <<"C">>},
     level : VALIDATION_LEVEL_BASIC..VALIDATION_LEVEL_FULL,
     skip_wal : BOOLEAN]

\* the archive --wal-archive names: empty, or segments 0..MaxSegNo of timeline 1
CheckArchives ==
    {WalInfoOf({}), WalInfoOf({lsn_to_seg(n * WalSegSize, 1, WalSegSize) : n \in 0..MaxSegNo})}

InitCheck ==
    /\ pc = "check_start"
    /\ fs = MetaFs
    /\ cwd = <<>>
    /\ IdleScan
    /\ backup = ZeroBackupInfo
    /\ result = NoResult
    /\ wal_info \in CheckArchives
    /\ IdleWalLocals
    /\ IdleAlg
    /\ IdleCli
    /\ backups \in Inventories
    /\ opts \in CheckOptions
    /\ current = 0
    /\ backup_count = 0
    /\ backups_validated = 0
    /\ backups_skipped = 0
    /\ total_errors = 0
    /\ total_warnings = 0
    /\ validation_log = <<>>
    /\ verdict = "none"
    /\ exit_code = -1

NextCheck == CheckStart \/ CheckLoop \/ CheckSummary

SpecCheck == InitCheck /\ [][NextCheck]_vars

(***************************************************************************)
(* Properties of the check command.                                        *)
(***************************************************************************)
RECURSIVE SumSeq(_)
SumSeq(q) == IF q = <<>> THEN 0 ELSE q[1] + SumSeq(Tail(q))

MatchesFilter(b) == opts.backup_id = NullStr \/ b.backup_id = opts.backup_id

IsErrorOrCorrupt(b) == b.status \in {BACKUP_STATUS_ERROR, BACKUP_STATUS_CORRUPT}

MatchingIdx == {i \in 1..Len(backups) : MatchesFilter(backups[i])}

SkippedIdx == {i \in MatchingIdx : IsErrorOrCorrupt(backups[i])}

ValidatedIdx == MatchingIdx \ SkippedIdx

\* the metadata errors / warnings of the validated backups at the chosen level
MetadataErrorSum ==
    SumSeq([i \in 1..Len(backups) |->
              IF i \in ValidatedIdx /\ opts.level >= VALIDATION_LEVEL_STANDARD
              THEN validate_backup_metadata(backups[i]).error_count ELSE 0])

MetadataWarningSum ==
    SumSeq([i \in 1..Len(backups) |->
              IF i \in ValidatedIdx /\ opts.level >= VALIDATION_LEVEL_STANDARD
              THEN validate_backup_metadata(backups[i]).warning_count ELSE 0])

CheckFinished == pc = "check_done" /\ backups # <<>>

\* C8: a record with status ERROR or CORRUPT is never handed to a validation
\* step and adds nothing to the totals; it is counted as skipped, and after
\* the loop the records matching the id filter number validated + skipped.
C8_ErrorAndCorruptAreSkipped ==
    /\ \A k \in 1..Len(validation_log) :
          ~IsErrorOrCorrupt(backups[validation_log[k].index])
    /\ CheckFinished =>
          /\ backups_skipped = Cardinality(SkippedIdx)
          /\ backups_validated = Cardinality(ValidatedIdx)
          /\ Cardinality(MatchingIdx) = backups_validated + backups_skipped
          /\ backup_count = Cardinality(MatchingIdx)
          /\ total_errors = MetadataErrorSum
          /\ total_warnings = MetadataWarningSum

C8_Witness ==
    /\ CheckFinished
    /\ backups_skipped >= 1
    /\ backups_validated >= 1
    /\ Len(validation_log) >= 1
    /\ \E i \in SkippedIdx : validate_backup_metadata(backups[i]).error_count > 0
    /\ total_errors = 0

HasBothLsns(b) == b.start_lsn > 0 /\ b.stop_lsn > 0

\* the segments the continuity check of a run has to report as missing
MissingSegmentSum ==
    SumSeq([i \in 1..Len(backups) |->
              IF i \in ValidatedIdx /\ HasBothLsns(backups[i])
              THEN Cardinality(MissingSegments(backups[i], wal_info)) ELSE 0])

\* C10: at level checksums or full without --skip-wal, every validated backup
\* with both LSNs has its start-to-stop segment range checked and each missing
\* segment adds one error to the total, so such a run cannot end with OK.
C10_MissingSegmentsAreCounted ==
    (CheckFinished /\ opts.level >= VALIDATION_LEVEL_CHECKSUMS /\ ~opts.skip_wal) =>
        /\ total_errors = MetadataErrorSum + MissingSegmentSum
        /\ (MissingSegmentSum > 0 => verdict # "OK")

(***************************************************************************)
(* Directory and file access.  stat() succeeds on every existing path;     *)
(* opendir() and fopen() fail on the paths in fs.locked (no permission).   *)
(* fs.content maps a file to the name of the document it holds; Documents  *)
(* maps that name to the lines of a file, or to the members of an archive. *)
(***************************************************************************)
opendir(path) == is_directory(path) /\ Resolve(path) \notin fs.locked

\* the d_name values readdir returns for a directory, "." and ".." aside
DirEntries(path) ==
    {q[Len(q)] : q \in {e \in fs.dirs \cup fs.files :
                          /\ Len(e) = Len(Resolve(path)) + 1
                          /\ SubSeq(e, 1, Len(e) - 1) = Resolve(path)}}

\* fopen(path, "r") succeeds; it does so on a directory too, which reads as empty
fopen(path) == file_exists(path) /\ Resolve(path) \notin fs.locked


(***************************************************************************)
(* The documents of the modelled file systems.  A line of backup_label is  *)
(* [key, value]; a line of backup.control is [key, sep, value]; a line of  *)
(* backup_manifest is the sequence of its JSON members [key, value].       *)
(***************************************************************************)
\* the token of the character '"'
DoubleQuote == "dquote"

GoodLabel ==
    <<[key |-> "START WAL LOCATION:",
       value |-> <<" ", "0", "/", "2", "0", "0", "0", "0", "2", "8", " ",
                   "(file ", "000000010000000000000002", ")", "\n">>],
      [key |-> "CHECKPOINT LOCATION:",
       value |-> <<" ", "0", "/", "2", "0", "0", "0", "0", "8", "0", "\n">>],
      [key |-> "BACKUP METHOD:", value |-> <<" ", "streamed", "\n">>],
      [key |-> "START TIME:",
       value |-> <<" ", "2", "0", "2", "4", "-", "0", "1", "-", "0", "8", " ",
                   "1", "0", ":", "0", "5", ":", "3", "0", " ", "UTC", "\n">>],
      [key |-> "START TIMELINE:", value |-> <<" ", "1", "\n">>]>>

IsNotStartTime(line) == line.key # "START TIME:"

\* a label that lacks the START TIME line
LabelWithoutStartTime == SelectSeq(GoodLabel, IsNotStartTime)

GoodControl ==
    <<[key |-> "#Configuration", sep |-> "", value |-> <<"\n">>],
      [key |-> "backup-mode", sep |-> "=", value |-> <<" ", "FULL", "\n">>],
      [key |-> "status", sep |-> "=", value |-> <<" ", "OK", "\n">>],
      [key |-> "start-lsn", sep |-> "=",
       value |-> <<" ", "0", "/", "2", "0", "0", "0", "0", "2", "8", "\n">>],
      [key |-> "stop-lsn", sep |-> "=",
       value |-> <<" ", "0", "/", "2", "0", "0", "0", "0", "B", "8", "\n">>],
      [key |-> "start-time", sep |-> "=",
       value |-> <<" ", "'", "2", "0", "2", "4", "-", "0", "1", "-", "0", "8", " ",
                   "1", "0", ":", "0", "5", ":", "3", "0", "+", "0", "0", "'", "\n">>],
      [key |-> "end-time", sep |-> "=",
       value |-> <<" ", "'", "2", "0", "2", "4", "-", "0", "1", "-", "0", "8", " ",
                   "1", "0", ":", "0", "6", ":", "4", "0", "+", "0", "0", "'", "\n">>],
      [key |-> "timelineid", sep |-> "=", value |-> <<" ", "1", "\n">>],
      [key |-> "server-version", sep |-> "=", value |-> <<" ", "1", "6", "\n">>]>>

\* a control file that carries no key the parser knows
ControlWithoutKeys ==
    <<[key |-> "#Configuration", sep |-> "", value |-> <<"\n">>],
      [key |-> "compress-alg", sep |-> "=", value |-> <<" ", "none", "\n">>]>>

GoodManifest ==
    <<<<[key |-> "PostgreSQL-Backup-Manifest-Version", value |-> <<" ", "1", ",", "\n">>]>>,
      <<[key |-> "Timeline", value |-> <<" ", "1", ",", " ">>],
        [key |-> "Start-LSN",
         value |-> <<" ", DoubleQuote, "0", "/", "2", "0", "0", "0", "0", "2", "8",
                     DoubleQuote, ",", " ">>],
        [key |-> "End-LSN",
         value |-> <<" ", DoubleQuote, "0", "/", "2", "0", "0", "0", "1", "0", "0",
                     DoubleQuote, "\n">>]>>>>

\* a manifest without a WAL range
ManifestWithoutRange == SubSeq(GoodManifest, 1, 1)

\* backup.info and backup.manifest of the repository dialect: a line is the
\* sequence of its tokens, a digit of a number being one token
CatalogHeader == <<"[", "backup:current", "]", "\n">>

\* the catalog entry of the backup id: its key and its JSON value
CatalogLine(id, type) ==
    <<id, "=", "{", DoubleQuote, "backup-label", DoubleQuote, ":", DoubleQuote, id,
      DoubleQuote, ",", DoubleQuote, "backup-type", DoubleQuote, ":", DoubleQuote, type,
      DoubleQuote, ",", DoubleQuote, "backup-timestamp-start", DoubleQuote, ":",
      "1", "7", "0", "4", ",", DoubleQuote, "backup-lsn-start", DoubleQuote, ":",
      DoubleQuote, "0", "/", "2", "8", DoubleQuote, "}", "\n">>

DbSection == <<<<"[", "db", "]", "\n">>, <<"db-id", "=", "1", "\n">>>>

CatalogTwo ==
    DbSection \o <<CatalogHeader, CatalogLine("20240108-100530F", "full"),
                   CatalogLine("20240109-143015I", "incr")>>

\* the entries in an order that is not the order of their keys
CatalogReversed ==
    <<CatalogHeader, CatalogLine("20240109-143015I", "incr"),
      CatalogLine("20240108-100530F", "full")>> \o DbSection

\* three entries between a comment, an empty line and a line without '='
CatalogThree ==
    <<<<" ", CatalogHeader[1], CatalogHeader[2], CatalogHeader[3], " ", "\n">>,
      <<"#", "current backups", "\n">>,
      CatalogLine("20240108-100530F", "full"),
      <<"\n">>,
      CatalogLine("20240108-120000D", "diff"),
      <<"stray text", "\n">>,
      CatalogLine("20240109-143015I", "incr")>>

CatalogEmpty == <<CatalogHeader>> \o DbSection

CatalogNoSection == DbSection

\* a manifest as written by hand (bare values) and as pgBackRest writes it
\* (values in double quotes)
ManifestBare(id, type, major) ==
    <<<<"[", "backup", "]", "\n">>, <<"backup-label", "=", id, "\n">>,
      <<"backup-type", "=", type, "\n">>,
      <<"backup-lsn-stop", "=", "0", "/", "6", "0", "\n">>,
      <<"\n">>, <<"[", "backup:db", "]", "\n">>,
      <<"db-version", "=", major[1], major[2], "\n">>>>

ManifestQuoted(id, type, major) ==
    <<<<"[", "backup", "]", "\n">>,
      <<"backup-label", "=", DoubleQuote, id, DoubleQuote, "\n">>,
      <<"backup-type", "=", DoubleQuote, type, DoubleQuote, "\n">>,
      <<"[", "backup:db", "]", "\n">>,
      <<"db-version", " ", "=", " ", DoubleQuote, major[1], major[2], DoubleQuote, "\n">>>>

\* a manifest that names no backup-type
ManifestVersionOnly ==
    <<<<"[", "backup:db", "]", "\n">>, <<"db-version", "=", "1", "7", "\n">>>>

Documents ==
    [CatalogTwo |-> CatalogTwo,
     CatalogReversed |-> CatalogReversed,
     CatalogThree |-> CatalogThree,
     CatalogEmpty |-> CatalogEmpty,
     CatalogNoSection |-> CatalogNoSection,
     ManifestFull17 |-> ManifestBare("20240108-100530F", "full", <<"1", "7">>),
     ManifestIncr17 |-> ManifestBare("20240109-143015I", "incr", <<"1", "7">>),
     ManifestDiff17 |-> ManifestBare("20240108-120000D", "diff", <<"1", "7">>),
     ManifestFull16 |-> ManifestQuoted("20240108-100530F", "full", <<"1", "6">>),
     ManifestIncr16 |-> ManifestQuoted("20240109-143015I", "incr", <<"1", "6">>),
     ManifestVersionOnly |-> ManifestVersionOnly,
     GoodLabel |-> GoodLabel,
     LabelWithoutStartTime |-> LabelWithoutStartTime,
     GoodControl |-> GoodControl,
     ControlWithoutKeys |-> ControlWithoutKeys,
     GoodManifest |-> GoodManifest,
     ManifestWithoutRange |-> ManifestWithoutRange,
     GoodTar |-> [backup_label |-> GoodLabel,
                  PG_VERSION |-> <<[key |-> "", value |-> <<"1", "6", "\n">>]>>],
     TarWithoutStartTime |-> [backup_label |-> LabelWithoutStartTime,
                              PG_VERSION |-> <<[key |-> "", value |-> <<"1", "6", "\n">>]>>]]

\* the lines fgets returns
ReadLines(path) ==
    IF Resolve(path) \notin fs.files THEN <<>>
    ELSE IF fs.content[Resolve(path)] = "given" THEN given
    ELSE Documents[fs.content[Resolve(path)]]

\* the output of "tar -xOf <archive> <member> 2>/dev/null"
TarExtract(archive, member) ==
    IF Resolve(archive) \in fs.files
          /\ member \in DOMAIN Documents[fs.content[Resolve(archive)]]
    THEN Documents[fs.content[Resolve(archive)]][member]
    ELSE <<>>

\* the modelled file names for which strncmp(d_name, "base.tar", 8) == 0
BaseTarNames == {"base.tar", "base.tar.gz"}

\* strrchr(path, '/') as an index into the path, 0 for NULL
LastSlash(path) ==
    LET S == {i \in 1..Len(path) : path[i] = "/"}
    IN  IF S = {} THEN 0 ELSE CHOOSE i \in S : \A j \in S : j <= i

\* the text after the last '/', or the whole path when it has none
BaseName(path) == SubSeq(path, LastSlash(path) + 1, Len(path))

(***************************************************************************)
(* pg_basebackup.c: detection                                              *)
(***************************************************************************)
is_tar_format(path) ==
    opendir(path) /\ \E n \in DirEntries(path) : n \in BaseTarNames

is_plain_format(path) ==
    LET has_base == is_directory(path_join(path, <<"base">>))
        has_global == is_directory(path_join(path, <<"global">>))
        has_marker == \/ file_exists(path_join(path, <<"backup_label">>))
                      \/ file_exists(path_join(path, <<"backup_manifest">>))
    IN  has_base /\ has_global /\ has_marker

\* lines 146-162: the path has a parent part and the parent holds backup.control
ParentHasControl(path) ==
    LET last_slash == LastSlash(path)
    IN  /\ last_slash # 0
        /\ last_slash # 1
        /\ file_exists(path_join(SubSeq(path, 1, last_slash - 1), <<"backup.control">>))

pg_basebackup_detect(path) ==
    /\ is_directory(path)
    /\ ~ParentHasControl(path)
    /\ (is_tar_format(path) \/ is_plain_format(path))

(***************************************************************************)
(* pg_probackup.c: detection                                               *)
(***************************************************************************)
pg_probackup_detect(path) ==
    /\ is_directory(path)
    /\ file_exists(path_join(path, <<"backup.control">>))
    /\ is_directory(path_join(path, <<"database">>))

(***************************************************************************)
(* adapter_registry.c                                                      *)
(***************************************************************************)
pg_backup_auditor_adapters == <<BACKUP_TOOL_PG_BASEBACKUP, BACKUP_TOOL_PG_PROBACKUP>>

\* pg_backup_auditor_adapters[i]->detect(path)
AdapterDetect(adapter, path) ==
    IF adapter = BACKUP_TOOL_PG_BASEBACKUP THEN pg_basebackup_detect(path)
    ELSE pg_probackup_detect(path)

NoAdapter == "NULL"

\* the adapter the loop returns: hits are the places whose detect() accepts
FirstAdapter(hits) ==
    IF hits = {} THEN NoAdapter
    ELSE pg_backup_auditor_adapters[CHOOSE i \in hits : \A j \in hits : i <= j]

detect_backup_type(path) ==
    FirstAdapter({i \in 1..Len(pg_backup_auditor_adapters) :
                     AdapterDetect(pg_backup_auditor_adapters[i], path)})

(***************************************************************************)
(* Text conversions of the C library, on token sequences: sscanf with %d   *)
(* and %X directives, atoi, mktime (time zone UTC) and zero-padded %d.     *)
(***************************************************************************)
WhiteSpace == {" ", "\t", "\n", "\r"}

IsDecDigit(c) == \E i \in 1..10 : DecDigits[i] = c

IsHexDigit(c) == \E i \in 1..16 : HexDigits[i] = c \/ LowerHexDigits[i] = c

RECURSIVE SkipSpace(_)
SkipSpace(text) ==
    IF text # <<>> /\ text[1] \in WhiteSpace THEN SkipSpace(Tail(text)) ELSE text

\* the length of the longest prefix of text made of decimal / hexadecimal digits
RECURSIVE DecRun(_)
DecRun(text) == IF text # <<>> /\ IsDecDigit(text[1]) THEN 1 + DecRun(Tail(text)) ELSE 0

RECURSIVE HexRun(_)
HexRun(text) == IF text # <<>> /\ IsHexDigit(text[1]) THEN 1 + HexRun(Tail(text)) ELSE 0

\* the digit run of a %d conversion: u is the text after the sign, sign its factor
ScanDigits(u, sign) ==
    [ok |-> DecRun(u) > 0,
     val |-> sign * DecValue(SubSeq(u, 1, DecRun(u))),
     rest |-> SubSeq(u, DecRun(u) + 1, Len(u))]

\* the optional sign of a %d conversion: t is the text after the white space
ScanSigned(t) ==
    IF t # <<>> /\ t[1] = "-" THEN ScanDigits(Tail(t), -1)
    ELSE IF t # <<>> /\ t[1] = "+" THEN ScanDigits(Tail(t), 1)
    ELSE ScanDigits(t, 1)

\* one %d conversion: leading white space, an optional sign, a digit run
ScanInt(text) == ScanSigned(SkipSpace(text))

\* the digit run of a %X conversion: t is the text after the white space
ScanHexDigits(t) ==
    [ok |-> HexRun(t) > 0,
     val |-> HexValue(SubSeq(t, 1, HexRun(t))),
     rest |-> SubSeq(t, HexRun(t) + 1, Len(t))]

\* one %X conversion
ScanHex(text) == ScanHexDigits(SkipSpace(text))

\* sscanf(text, fmt, ...): the values converted before the first mismatch; r is
\* the outcome of the conversion fmt begins with
RECURSIVE sscanf(_, _)
RECURSIVE Converted(_, _)
Converted(r, fmt) ==
    IF r.ok THEN <<r.val>> \o sscanf(r.rest, Tail(fmt)) ELSE <<>>

sscanf(text, fmt) ==
    IF fmt = <<>> THEN <<>>
    ELSE IF fmt[1] = "%d" THEN Converted(ScanInt(text), fmt)
    ELSE IF fmt[1] = "%X" THEN Converted(ScanHex(text), fmt)
    ELSE IF fmt[1] = " " THEN sscanf(SkipSpace(text), Tail(fmt))
    ELSE IF text # <<>> /\ text[1] = fmt[1] THEN sscanf(Tail(text), Tail(fmt))
    ELSE <<>>

TimestampFormat == <<"%d", "-", "%d", "-", "%d", " ", "%d", ":", "%d", ":", "%d">>

LsnFormat == <<"%X", "/", "%X">>

\* atoi(text): the value of the leading digit run, 0 when there is none
atoi(text) == ScanInt(text).val

\* days from 1970-01-01 to the civil date y-m-d
DaysFromCivil(y, m, d) ==
    LET yy == IF m <= 2 THEN y - 1 ELSE y
        era == yy \div 400
        yoe == yy - era * 400
        mp == IF m > 2 THEN m - 3 ELSE m + 9
        doy == (153 * mp + 2) \div 5 + d - 1
        doe == yoe * 365 + yoe \div 4 - yoe \div 100 + doy
    IN  era * 146097 + doe - 719468

\* mktime of the broken-down time t = <<year, month, day, hour, minute, second>>,
\* the fields in range
mktime(t) == DaysFromCivil(t[1], t[2], t[3]) * 86400 + t[4] * 3600 + t[5] * 60 + t[6]

\* printf("%0<w>d", n) for n >= 0
ZeroPad(n, w) ==
    LET d == Dec(n)
    IN  IF Len(d) >= w THEN d ELSE [i \in 1..(w - Len(d)) |-> "0"] \o d

\* snprintf(backup_id, "%04d%02d%02d-%02d%02d%02d", ...)
TimestampId(t) ==
    ZeroPad(t[1], 4) \o ZeroPad(t[2], 2) \o ZeroPad(t[3], 2) \o <<"-">>
        \o ZeroPad(t[4], 2) \o ZeroPad(t[5], 2) \o ZeroPad(t[6], 2)

(***************************************************************************)
(* pg_basebackup.c: metadata and scan.  The BackupInfo fields that are     *)
(* only copied through (sizes, method, label text) are left out.           *)
(***************************************************************************)
STATUS_OK == "STATUS_OK"
STATUS_ERROR == "STATUS_ERROR"

LsnLoBits == 30                         \* modelled width of the low LSN word

\* ((uint64_t) hi << 32) | lo
MakeLsn(hi, lo) == hi * (2 ^ LsnLoBits) + (lo % (2 ^ LsnLoBits))

\* the text between "(file " and the next ")", or <<>>
WalFileOf(value) ==
    LET S == {i \in 1..Len(value) : value[i] = "(file "}
        i == CHOOSE k \in S : \A j \in S : k <= j
        E == {j \in (i + 1)..Len(value) : value[j] = ")"}
        e == CHOOSE k \in E : \A j \in E : k <= j
    IN  IF S = {} \/ E = {} THEN <<>> ELSE SubSeq(value, i + 1, e - 1)

\* lines 432-585: the effect of one line of backup_label on the parser's state
\* st = [info, found_start_time, is_incremental]
\* if (sscanf(value, "%X/%X", &hi, &lo) == 2) field = ((uint64_t) hi << 32) | lo;
\* lsn is what sscanf converted, old the field before
LsnOr(lsn, old) == IF Len(lsn) = 2 THEN MakeLsn(lsn[1], lsn[2]) ELSE old

\* the copy of a name found in the line, the field kept when there is none
NameOr(name, old) == IF name # <<>> THEN name ELSE old

\* lines 524-551: the START TIME line; tm is what sscanf converted
LabelStartTime(st, tm) ==
    IF Len(tm) = 6
    THEN [st EXCEPT !.info.start_time = mktime(tm),
                    !.info.backup_id = TimestampId(tm),
                    !.found_start_time = TRUE]
    ELSE st

\* value is the text after the key, the leading white space skipped
LabelField(st, key, value) ==
    IF key = "START WAL LOCATION:"
    THEN [st EXCEPT !.info.start_lsn = LsnOr(sscanf(value, LsnFormat), @),
                    !.info.wal_start_file = NameOr(WalFileOf(value), @)]
    ELSE IF key = "CHECKPOINT LOCATION:"
    THEN [st EXCEPT !.info.stop_lsn = LsnOr(sscanf(value, LsnFormat), @)]
    ELSE IF key = "START TIME:"
    THEN LabelStartTime(st, sscanf(value, TimestampFormat))
    ELSE IF key = "START TIMELINE:"
    THEN [st EXCEPT !.info.timeline = atoi(value)]
    ELSE IF key = "INCREMENTAL FROM LSN:"
    THEN [st EXCEPT !.is_incremental = TRUE]
    ELSE st

LabelLine(st, line) == LabelField(st, line.key, SkipSpace(line.value))

RECURSIVE LabelLines(_, _)
LabelLines(st, lines) ==
    IF lines = <<>> THEN st ELSE LabelLines(LabelLine(st, Head(lines)), Tail(lines))

\* the text after the first '"' of value; <<>> when value has none
AfterQuote(value) ==
    LET S == {i \in 1..Len(value) : value[i] = DoubleQuote}
    IN  IF S = {} THEN <<>>
        ELSE SubSeq(value, (CHOOSE i \in S : \A j \in S : i <= j) + 1, Len(value))

\* strstr(line, "\"<key>\""): the first member of the line with that name, 0 for NULL
MemberAt(line, key) ==
    LET S == {i \in 1..Len(line) : line[i].key = key}
    IN  IF S = {} THEN 0 ELSE CHOOSE i \in S : \A j \in S : i <= j

\* lines 636-679: the effect of one line of backup_manifest.  A line is the
\* sequence of its JSON members [key, value], value being the text after the
\* member's ':'.
\* st = [info, found_timeline, found_lsn]
\* lines 654-662: t is the place of the "Timeline" member in the line
ManifestTimeline(st, line, t) ==
    IF ~st.found_timeline /\ t # 0
    THEN [st EXCEPT !.info.timeline = atoi(line[t].value), !.found_timeline = TRUE]
    ELSE st

\* what sscanf converts after the first '"' of the member at l
ManifestLsnText(line, l) ==
    IF l = 0 THEN <<>> ELSE sscanf(AfterQuote(line[l].value), LsnFormat)

\* lines 665-688: lsn is what sscanf converted for the "Start-LSN" member
ManifestStartLsn(st, lsn) ==
    IF ~st.found_lsn /\ Len(lsn) = 2
    THEN [st EXCEPT !.info.start_lsn = MakeLsn(lsn[1], lsn[2]), !.found_lsn = TRUE]
    ELSE st

ManifestLine(st, line) ==
    ManifestStartLsn(ManifestTimeline(st, line, MemberAt(line, "Timeline")),
                     ManifestLsnText(line, MemberAt(line, "Start-LSN")))

RECURSIVE ManifestLines(_, _)
ManifestLines(st, lines) ==
    IF lines = <<>> \/ (st.found_timeline /\ st.found_lsn) THEN st
    ELSE ManifestLines(ManifestLine(st, Head(lines)), Tail(lines))

\* the broken-down local time of a time_t taken from the clock
ClockTimes == {<<2024, 2, 1, 0, 0, 0>>, <<2024, 3, 1, 12, 0, 0>>}

ManifestResult_startTimeUnset(st, now) ==
    IF ~st.found_timeline /\ ~st.found_lsn
    THEN [status |-> STATUS_ERROR, info |-> st.info]
    ELSE [status |-> STATUS_OK,
          info |-> [st.info EXCEPT !.backup_id = TimestampId(now)]]

\* lines 696-722: st is the parser's state after the last line
ManifestResult(st, now) ==
    IF ~st.found_timeline /\ ~st.found_lsn
    THEN [status |-> STATUS_ERROR, info |-> st.info]
    ELSE [status |-> STATUS_OK,
          info |-> [st.info EXCEPT !.backup_id = TimestampId(now),
                                   !.start_time = mktime(now)]]

parse_backup_manifest(manifest_path, info, now) ==
    IF ~fopen(manifest_path) THEN [status |-> STATUS_ERROR, info |-> info]
    ELSE ManifestResult(ManifestLines([info |-> info, found_timeline |-> FALSE,
                                       found_lsn |-> FALSE], ReadLines(manifest_path)),
                        now)

\* the base.tar* entry the readdir loop finds first; the modelled directories
\* hold at most one
FirstBaseTar(backup_path) ==
    CHOOSE n \in DirEntries(backup_path) : n \in BaseTarNames

\* lines 576-604: st is the parser's state after the last line of the label
LabelResult(st) ==
    IF ~st.found_start_time THEN [status |-> STATUS_ERROR, info |-> st.info]
    ELSE [status |-> STATUS_OK,
          info |-> [st.info EXCEPT !.type = IF st.is_incremental
                                            THEN BACKUP_TYPE_INCREMENTAL ELSE @]]

\* the label is read from the file when fopen succeeds, else from the archive
pg_basebackup_read_metadata(backup_path, info, now) ==
    IF ~fopen(path_join(backup_path, <<"backup_label">>)) /\ ~is_tar_format(backup_path)
    THEN parse_backup_manifest(path_join(backup_path, <<"backup_manifest">>), info, now)
    ELSE LabelResult(
             LabelLines([info |-> info, found_start_time |-> FALSE, is_incremental |-> FALSE],
                        IF fopen(path_join(backup_path, <<"backup_label">>))
                        THEN ReadLines(path_join(backup_path, <<"backup_label">>))
                        ELSE TarExtract(path_join(backup_path, <<FirstBaseTar(backup_path)>>),
                                        "backup_label")))

\* lines 266-336: PG_VERSION read from the file, else from the tar archive
\* the version the first line gives, the field kept when there is no line
VersionOr(lines, pg_version) ==
    IF lines # <<>> THEN atoi(lines[1].value) * 10000 ELSE pg_version

\* the line is read from the file, else from the archive member
ReadPgVersion(backup_path, pg_version) ==
    VersionOr(IF fopen(path_join(backup_path, <<"PG_VERSION">>))
              THEN ReadLines(path_join(backup_path, <<"PG_VERSION">>))
              ELSE IF is_tar_format(backup_path)
              THEN TarExtract(path_join(backup_path, <<FirstBaseTar(backup_path)>>),
                              "PG_VERSION")
              ELSE <<>>,
              pg_version)

\* lines 220-341: md is what pg_basebackup_read_metadata returned
BaseBackupRecord(backup_path, md) ==
    [md.info EXCEPT !.status = IF md.status # STATUS_OK THEN BACKUP_STATUS_ERROR ELSE @,
                    !.end_time = IF file_exists(backup_path) THEN fs.mtime ELSE @,
                    !.pg_version = ReadPgVersion(backup_path, @)]

pg_basebackup_scan(backup_path, now) ==
    BaseBackupRecord(backup_path,
        pg_basebackup_read_metadata(backup_path,
            [ZeroBackupInfo EXCEPT !.backup_id = BaseName(backup_path),
                                   !.backup_path = backup_path,
                                   !.node_name = <<"localhost">>,
                                   !.tool = BACKUP_TOOL_PG_BASEBACKUP,
                                   !.type = BACKUP_TYPE_FULL,
                                   !.status = BACKUP_STATUS_OK],
            now))

(***************************************************************************)
(* xlog.c: parse_lsn and format_lsn.  An XLogRecPtr is [hi, lo], its two   *)
(* 32-bit words at the modelled width LsnLoBits; an unsigned long has two  *)
(* such words.                                                             *)
(***************************************************************************)
LsnWord == 2 ^ LsnLoBits

\* strchr(str, '/') as an index into str, 0 for NULL
FirstSlash(str) ==
    IF \A i \in 1..Len(str) : str[i] # "/" THEN 0
    ELSE CHOOSE i \in 1..Len(str) : str[i] = "/" /\ \A j \in 1..(i - 1) : str[j] # "/"

\* a | b
RECURSIVE BitOr(_, _)
BitOr(a, b) ==
    IF a = 0 THEN b
    ELSE IF b = 0 THEN a
    ELSE 2 * BitOr(a \div 2, b \div 2) + (IF a % 2 = 1 \/ b % 2 = 1 THEN 1 ELSE 0)

\* the unsigned long of the digit value v, negated when a '-' preceded it
UlongWords(v, negative) ==
    IF negative /\ v > 0
    THEN [hi |-> (LsnWord - 1 - (v \div LsnWord) + (IF v % LsnWord = 0 THEN 1 ELSE 0))
                     % LsnWord,
          lo |-> (LsnWord - (v % LsnWord)) % LsnWord]
    ELSE [hi |-> v \div LsnWord, lo |-> v % LsnWord]

\* the digits of strtoul: t is the text after white space, sign and prefix,
\* skipped the number of characters before it.  The digit runs of the
\* modelled texts are within the range of unsigned long.
StrtoulDigits(t, skipped, negative) ==
    IF HexRun(t) = 0 THEN [end |-> 0, hi |-> 0, lo |-> 0]
    ELSE [end |-> skipped + HexRun(t),
          hi |-> UlongWords(HexValue(SubSeq(t, 1, HexRun(t))), negative).hi,
          lo |-> UlongWords(HexValue(SubSeq(t, 1, HexRun(t))), negative).lo]

\* the optional "0x" or "0X" of base 16
StrtoulPrefix(t, skipped, negative) ==
    IF Len(t) >= 3 /\ t[1] = "0" /\ t[2] \in {"x", "X"} /\ IsHexDigit(t[3])
    THEN StrtoulDigits(SubSeq(t, 3, Len(t)), skipped + 2, negative)
    ELSE StrtoulDigits(t, skipped, negative)

\* the optional sign
StrtoulSign(t, skipped) ==
    IF t # <<>> /\ t[1] = "-" THEN StrtoulPrefix(Tail(t), skipped + 1, TRUE)
    ELSE IF t # <<>> /\ t[1] = "+" THEN StrtoulPrefix(Tail(t), skipped + 1, FALSE)
    ELSE StrtoulPrefix(t, skipped, FALSE)

\* strtoul(nptr, &endptr, 16): the value as words and end, the number of
\* characters before endptr (0 when nothing was converted)
strtoul(nptr) == StrtoulSign(SkipSpace(nptr), Len(nptr) - Len(SkipSpace(nptr)))

NoLsn == [ok |-> FALSE, lsn |-> [hi |-> 0, lo |-> 0]]

\* lines 53-60: lower is what strtoul made of rest, the text after the '/'
ParseLsnLower(upper, lower, rest) ==
    IF lower.end # Len(rest) THEN NoLsn
    ELSE [ok |-> TRUE, lsn |-> [hi |-> BitOr(upper.lo, lower.hi), lo |-> lower.lo]]

\* lines 48-50: upper is what strtoul made of str, slash_pos the place of the '/'
ParseLsnUpper(upper, slash_pos, rest) ==
    IF upper.end # slash_pos - 1 THEN NoLsn
    ELSE ParseLsnLower(upper, strtoul(rest), rest)

\* parse_lsn(str, &lsn): ok is the value returned, lsn what *lsn is set to
parse_lsn(str) ==
    IF FirstSlash(str) = 0 THEN NoLsn
    ELSE ParseLsnUpper(strtoul(str), FirstSlash(str),
                       SubSeq(str, FirstSlash(str) + 1, Len(str)))

\* printf("%X", n)
RECURSIVE HexText(_)
HexText(n) ==
    IF n < 16 THEN <<HexDigits[n + 1]>>
    ELSE Append(HexText(n \div 16), HexDigits[(n % 16) + 1])

\* format_lsn(lsn, buf, bufsize): the text written to buf, which is large enough
format_lsn(xlogptr) == HexText(xlogptr.hi) \o <<"/">> \o HexText(xlogptr.lo)

(***************************************************************************)
(* pg_probackup.c: metadata and scan.  A line of backup.control is         *)
(* [key, sep, value]: the text before the '=', the '=' (or "" when the     *)
(* line has none) and the text after it.                                   *)
(***************************************************************************)
\* strncmp(line, key, strlen(key)) == 0 over the modelled line keys
StartsWith(lineKey, key) ==
    lineKey = key \/ (key = "timeline" /\ lineKey = "timelineid")

RECURSIVE SkipBlank(_)
SkipBlank(text) ==
    IF text # <<>> /\ text[1] \in {" ", "\t"} THEN SkipBlank(Tail(text)) ELSE text

RECURSIVE TrimEnd(_)
TrimEnd(text) ==
    IF Len(text) > 1 /\ text[Len(text)] \in WhiteSpace
    THEN TrimEnd(SubSeq(text, 1, Len(text) - 1))
    ELSE text

\* the contents of the value buffer after parse_control_line(line, key, value, ...)
\* the text of a quoted value: up to the closing quote, else to the end
QuotedValue(inner) ==
    IF \E i \in 1..Len(inner) : inner[i] = "'"
    THEN SubSeq(inner, 1, (CHOOSE i \in 1..Len(inner) :
                              inner[i] = "'" /\ \A j \in 1..(i - 1) : inner[j] # "'") - 1)
    ELSE TrimEnd(inner)

\* lines 213-244: start is the text after the '=', the blanks skipped
ControlValue(start) ==
    IF start # <<>> /\ start[1] = "'" THEN QuotedValue(Tail(start)) ELSE TrimEnd(start)

parse_control_line(line, key, value) ==
    IF line.sep # "=" THEN value
    ELSE IF ~StartsWith(line.key, key) THEN value
    ELSE ControlValue(SkipBlank(line.value))

parse_pg_probackup_timestamp(str) ==
    LET tm == sscanf(str, TimestampFormat)
    IN  IF Len(tm) = 6 THEN mktime(tm) ELSE 0

\* the keys in the order pg_probackup_read_metadata tries them; "timelineid"
\* stands for the timelineid / timeline pair
ControlKeys ==
    <<"backup-mode", "status", "backup-id", "start-lsn", "stop-lsn", "start-time",
      "end-time", "timelineid", "parent-backup-id", "data-bytes", "wal-bytes",
      "server-version", "program-version">>

\* the field after "if (parse_lsn(value, &lsn)) field = lsn;": r is what
\* parse_lsn returned, old the field before
ParsedLsnOr(r, old) == IF r.ok THEN MakeLsn(r.lsn.hi, r.lsn.lo) ELSE old

\* as ApplyControlKey, but a timeline once set is kept
ApplyControlKey_firstTimelineKept(info, key, value) ==
    IF key = "timelineid" /\ info.timeline = 0 THEN [info EXCEPT !.timeline = atoi(value)]
    ELSE info

\* the body of the if (value[0] != '\0') block of a key
ApplyControlKey(info, key, value) ==
    IF key = "backup-mode"
    THEN [info EXCEPT !.type = IF value = <<"FULL">> THEN BACKUP_TYPE_FULL
                                ELSE IF value = <<"PAGE">> THEN BACKUP_TYPE_PAGE
                                ELSE IF value = <<"DELTA">> THEN BACKUP_TYPE_DELTA
                                ELSE IF value = <<"PTRACK">> THEN BACKUP_TYPE_PTRACK
                                ELSE @]
    ELSE IF key = "status"
    THEN [info EXCEPT !.status = IF value = <<"OK">> THEN BACKUP_STATUS_OK
                                  ELSE IF value = <<"RUNNING">> THEN BACKUP_STATUS_RUNNING
                                  ELSE IF value = <<"CORRUPT">> THEN BACKUP_STATUS_CORRUPT
                                  ELSE IF value = <<"ERROR">> THEN BACKUP_STATUS_ERROR
                                  ELSE IF value = <<"ORPHAN">> THEN BACKUP_STATUS_ORPHAN
                                  ELSE @]
    ELSE IF key = "backup-id" THEN [info EXCEPT !.backup_id = value]
    ELSE IF key = "start-lsn"
    THEN [info EXCEPT !.start_lsn = ParsedLsnOr(parse_lsn(value), @)]
    ELSE IF key = "stop-lsn"
    THEN [info EXCEPT !.stop_lsn = ParsedLsnOr(parse_lsn(value), @)]
    ELSE IF key = "start-time"
    THEN [info EXCEPT !.start_time = parse_pg_probackup_timestamp(value)]
    ELSE IF key = "end-time"
    THEN [info EXCEPT !.end_time = parse_pg_probackup_timestamp(value)]
    ELSE IF key = "timelineid" THEN [info EXCEPT !.timeline = atoi(value)]
    ELSE IF key = "server-version" THEN [info EXCEPT !.pg_version = atoi(value) * 10000]
    ELSE info

\* one iteration of the fgets loop: the keys are tried in order with the value
\* buffer as the previous check left it; the first check that leaves it
\* non-empty is applied and ends the iteration
\* the second call made for the timelineid / timeline pair
TimelineValue(line, value) ==
    IF value = <<>> THEN parse_control_line(line, "timeline", value) ELSE value

\* the value buffer after the parse_control_line calls made for key
CheckedValue(line, key, value) ==
    IF key = "timelineid"
    THEN TimelineValue(line, parse_control_line(line, "timelineid", value))
    ELSE parse_control_line(line, key, value)

\* the place in keys of the first check that finds the buffer non-empty, 0
\* when none does; the buffer is empty at every check after a miss
FiringKey(line, value, keys) ==
    IF \A k \in 1..Len(keys) : CheckedValue(line, keys[k], IF k = 1 THEN value ELSE <<>>) = <<>>
    THEN 0
    ELSE CHOOSE k \in 1..Len(keys) :
             /\ CheckedValue(line, keys[k], IF k = 1 THEN value ELSE <<>>) # <<>>
             /\ \A j \in 1..(k - 1) :
                    CheckedValue(line, keys[j], IF j = 1 THEN value ELSE <<>>) = <<>>

\* k is the place of the check that fires
ControlApply(info, value, line, keys, k) ==
    IF k = 0 THEN info
    ELSE ApplyControlKey(info, keys[k],
                         CheckedValue(line, keys[k], IF k = 1 THEN value ELSE <<>>))

ControlLine(info, value, line, keys) ==
    ControlApply(info, value, line, keys, FiringKey(line, value, keys))

\* the value buffer is reset whenever a check fires, and a non-empty buffer
\* fires the first check: it is empty at the start of every line but the first
RECURSIVE ControlLines(_, _, _)
ControlLines(info, value, lines) ==
    IF lines = <<>> THEN info
    ELSE ControlLines(ControlLine(info, value, Head(lines), ControlKeys), <<>>, Tail(lines))

\* char value[256] is read before it is written: what the buffer holds at the
\* first line is indeterminate, an empty or a non-empty string
UninitializedValues == {<<>>, <<"garbage">>}

pg_probackup_read_metadata(backup_path, info, value) ==
    LET control_path == path_join(backup_path, <<"backup.control">>)
    IN  IF ~fopen(control_path) THEN [status |-> STATUS_ERROR, info |-> info]
        ELSE [status |-> STATUS_OK,
              info |-> [ControlLines(info, value, ReadLines(control_path))
                            EXCEPT !.tool = BACKUP_TOOL_PG_PROBACKUP,
                                   !.backup_path = backup_path]]

\* lines 131-156: the name of the directory above the backup directory
InstanceName(backup_path) ==
    LET backup_id_pos == LastSlash(backup_path)
        S == {i \in 1..(backup_id_pos - 1) : backup_path[i] = "/"}
        instance_start == IF S = {} THEN 1 ELSE CHOOSE i \in S : \A j \in S : j <= i
    IN  IF backup_id_pos = 0 \/ backup_id_pos = 1 THEN <<>>
        ELSE IF backup_path[instance_start] # "/" THEN <<>>
        ELSE SubSeq(backup_path, instance_start + 1, backup_id_pos - 1)

\* the record returned, as a sequence: <<>> for NULL
\* lines 108-161: md is what pg_probackup_read_metadata returned
ProbackupRecord(backup_path, md) ==
    IF md.status # STATUS_OK THEN <<>>
    ELSE <<[md.info EXCEPT
               !.backup_id = IF @ = <<>> /\ LastSlash(backup_path) # 0
                             THEN BaseName(backup_path) ELSE @,
               !.instance_name = NameOr(InstanceName(backup_path), @)]>>

pg_probackup_scan(backup_path, value) ==
    ProbackupRecord(backup_path,
                    pg_probackup_read_metadata(backup_path, ZeroBackupInfo, value))

(***************************************************************************)
(* fs_scanner.c: scan_backup_directory.  The recursion of                  *)
(* scan_directory_recursive is kept as the stack of its pending calls;     *)
(* readdir returns the entries of a directory in an order of its own.      *)
(***************************************************************************)
\* the record scan_single_directory returns, as a sequence: <<>> for NULL
\* adapter->scan(path)
AdapterScan(adapter, path, now, value) ==
    IF adapter = NoAdapter THEN <<>>
    ELSE IF adapter = BACKUP_TOOL_PG_BASEBACKUP THEN <<pg_basebackup_scan(path, now)>>
    ELSE pg_probackup_scan(path, value)

scan_single_directory(path, now, value) ==
    AdapterScan(detect_backup_type(path), path, now, value)

\* what the scan of an adapter leaves open: the clock reading of the manifest
\* fallback and the indeterminate value buffer of the control file parser
AdapterChoices(adapter) ==
    IF adapter = BACKUP_TOOL_PG_BASEBACKUP
    THEN {[now |-> t, value |-> <<>>] : t \in ClockTimes}
    ELSE IF adapter = BACKUP_TOOL_PG_PROBACKUP
    THEN {[now |-> CHOOSE t \in ClockTimes : TRUE, value |-> v] : v \in UninitializedValues}
    ELSE {[now |-> CHOOSE t \in ClockTimes : TRUE, value |-> <<>>]}

ScanChoices(path) == AdapterChoices(detect_backup_type(path))

\* snprintf(path, "%s/%s", dir_path, entry->d_name)
ChildPath(dir_path, d_name) == dir_path \o <<"/", d_name>>

\* the entries the readdir loop recurses into
SubDirs(dir_path) == {n \in DirEntries(dir_path) : is_directory(ChildPath(dir_path, n))}

\* the orders in which readdir can return the members of S
Orders(S) ==
    {q \in [1..Cardinality(S) -> S] : \A i, j \in 1..Cardinality(S) : q[i] = q[j] => i = j}

\* scan_backup_directory up to the first call of scan_directory_recursive
ScanStart ==
    /\ pc = "scan_start"
    /\ backups' = <<>>
    /\ stack' = <<[dir_path |-> backup_dir, depth |-> 0]>>
    /\ pc' = "scan_loop"
    /\ UNCHANGED <<cliVars, algVars, fsVars, backup_dir, max_depth, visited, valVars, walVars, opts, current,
                   backup_count, backups_validated, backups_skipped, total_errors,
                   total_warnings, validation_log, verdict, exit_code>>

\* new_backup is what scan_single_directory returned as a sequence, <<>> for
\* NULL, in which case line 313 skips the call
add_backup_to_list_atHead(head, new_backup) == new_backup \o head

add_backup_to_list(head, new_backup) == head \o new_backup

\* line 298: the depth limit of scan_directory_recursive
DepthLimitExceeded_offByOne(depth) == max_depth >= 0 /\ depth >= max_depth

DepthLimitExceeded(depth) == max_depth >= 0 /\ depth > max_depth

\* one call of scan_directory_recursive: the depth limit, opendir, the backup
\* of the directory itself, and the calls for its subdirectories left pending
ScanDirectory ==
    /\ pc = "scan_loop"
    /\ stack # <<>>
    /\ LET dir_path == Head(stack).dir_path
           depth == Head(stack).depth
       IN  IF DepthLimitExceeded(depth) \/ ~opendir(dir_path)
           THEN /\ stack' = Tail(stack)
                /\ UNCHANGED <<backups, visited>>
           ELSE \E nd \in ScanChoices(dir_path), order \in Orders(SubDirs(dir_path)) :
                /\ backups' = add_backup_to_list(backups,
                                   scan_single_directory(dir_path, nd.now, nd.value))
                /\ visited' = Append(visited, dir_path)
                /\ stack' = [i \in 1..Len(order) |->
                                [dir_path |-> ChildPath(dir_path, order[i]),
                                 depth |-> depth + 1]] \o Tail(stack)
    /\ UNCHANGED <<cliVars, algVars, pc, fsVars, backup_dir, max_depth, valVars, walVars, opts, current,
                   backup_count, backups_validated, backups_skipped, total_errors,
                   total_warnings, validation_log, verdict, exit_code>>

\* the outermost call has returned: scan_backup_directory returns the list
ScanReturn ==
    /\ pc = "scan_loop"
    /\ stack = <<>>
    /\ pc' = "scan_done"
    /\ UNCHANGED <<cliVars, algVars, fsVars, scanVars, valVars, walVars, checkVars>>

(***************************************************************************)
(* Inputs of a scan: one backup directory /backups/inst/B1 whose entries,  *)
(* and the entries of its database/ subdirectory, are drawn freely; the    *)
(* contents of the metadata files; the path string naming the root.        *)
(***************************************************************************)
BackupDir == <<"backups", "inst", "B1">>

DirNames == {"database", "base", "global"}

BackupDirEntries ==
    {"backup.control", "database", "base.tar.gz", "base", "global",
     "backup_label", "backup_manifest"}

\* the backup directory has base/ and global/ together or neither of them
BackupDirChoices ==
    {dE \in SUBSET BackupDirEntries : ("base" \in dE) = ("global" \in dE)}

DatabaseEntries == {"base", "global", "backup_label", "base.tar"}

\* what the metadata files of one file system hold, whether backup.control
\* can be read and (lockdir) whether database/ cannot be opened
ContentScenarios ==
    {[label |-> "GoodLabel", tar |-> "GoodTar", control |-> "GoodControl",
      locked |-> FALSE, manifest |-> "GoodManifest"],
     [label |-> "LabelWithoutStartTime", tar |-> "TarWithoutStartTime",
      control |-> "GoodControl", locked |-> FALSE, manifest |-> "GoodManifest"],
     [label |-> "GoodLabel", tar |-> "GoodTar", control |-> "ControlWithoutKeys",
      locked |-> FALSE, manifest |-> "GoodManifest"],
     [label |-> "GoodLabel", tar |-> "GoodTar", control |-> "GoodControl",
      locked |-> TRUE, manifest |-> "GoodManifest"],
     [label |-> "GoodLabel", tar |-> "GoodTar", control |-> "GoodControl",
      locked |-> FALSE, manifest |-> "ManifestWithoutRange"],
     [label |-> "GoodLabel", tar |-> "GoodTar", control |-> "GoodControl",
      locked |-> FALSE, manifest |-> "GoodManifest", lockdir |-> TRUE]}

ContentOf(name, sc) ==
    IF name = "backup_label" THEN sc.label
    ELSE IF name = "backup.control" THEN sc.control
    ELSE IF name = "backup_manifest" THEN sc.manifest
    ELSE sc.tar

ScanFs(dE, dbE, sc) ==
    LET entries == {BackupDir \o <<n>> : n \in dE}
                       \cup {BackupDir \o <<"database", n>> : n \in dbE}
        dirs == {e \in entries : e[Len(e)] \in DirNames}
        files == entries \ dirs
    IN  [dirs |-> {SubSeq(BackupDir, 1, k) : k \in 0..Len(BackupDir)} \cup dirs,
         files |-> files,
         locked |-> (IF sc.locked THEN {f \in files : f[Len(f)] = "backup.control"} ELSE {})
                        \cup (IF "lockdir" \in DOMAIN sc
                              THEN {e \in dirs : e[Len(e)] = "database"} ELSE {}),
         content |-> [f \in files |-> ContentOf(f[Len(f)], sc)],
         mtime |-> mktime(<<2024, 1, 8, 10, 6, 45>>)]

\* the entries database/ can have given the entries of the backup directory
DatabaseChoices(dE) ==
    IF "database" \in dE THEN SUBSET DatabaseEntries ELSE {{}}

ScanFileSystems ==
    UNION {{ScanFs(dE, dbE, sc) : dbE \in DatabaseChoices(dE), sc \in ContentScenarios} :
              dE \in BackupDirChoices}

\* the calls of scan_backup_directory: the path string naming the root, the
\* working directory it is resolved in, and max_depth (-1 is unlimited)
ScanRoots ==
    {[dir |-> <<"/", "backups">>, cwd |-> <<>>, max_depth |-> -1],
     [dir |-> <<"/", "backups", "/", "inst">>, cwd |-> <<>>, max_depth |-> 1],
     [dir |-> <<"/", "backups", "/", "inst", "/", "B1">>, cwd |-> <<>>, max_depth |-> 0],
     [dir |-> <<"/", "backups", "/", "inst", "/", "B1">>, cwd |-> <<>>, max_depth |-> -1],
     [dir |-> <<"/", "backups", "/", "inst", "/", "B1", "/", "database">>, cwd |-> <<>>,
      max_depth |-> 0],
     [dir |-> <<"/", "backups", "/", "inst", "/", "B1", "/", "database", "/">>,
      cwd |-> <<>>, max_depth |-> 0],
     [dir |-> <<"database">>, cwd |-> BackupDir, max_depth |-> 0]}

InitScan ==
    /\ pc = "scan_start"
    /\ fs \in ScanFileSystems
    /\ \E r \in ScanRoots : backup_dir = r.dir /\ cwd = r.cwd /\ max_depth = r.max_depth
    /\ is_directory(backup_dir)
    /\ stack = <<>>
    /\ visited = <<>>
    /\ backup = ZeroBackupInfo
    /\ result = NoResult
    /\ wal_info = WalInfoOf({})
    /\ IdleWalLocals
    /\ IdleAlg
    /\ IdleCli
    /\ IdleCheck

NextScan == ScanStart \/ ScanDirectory \/ ScanReturn

SpecScan == InitScan /\ [][NextScan]_vars

(***************************************************************************)
(* Properties of detection and scanning.                                   *)
(***************************************************************************)
\* the absolute path string of a resolved path
RECURSIVE AbsolutePath(_)
AbsolutePath(names) ==
    IF names = <<>> THEN <<"/">>
    ELSE IF Len(names) = 1 THEN <<"/", names[1]>>
    ELSE AbsolutePath(SubSeq(names, 1, Len(names) - 1)) \o <<"/", names[Len(names)]>>

\* path names the database/ subdirectory of a directory the block-level
\* detector accepts
IsDataSubdirectory(path) ==
    LET names == Resolve(path)
    IN  /\ is_directory(path)
        /\ names # <<>>
        /\ names[Len(names)] = "database"
        /\ pg_probackup_detect(AbsolutePath(SubSeq(names, 1, Len(names) - 1)))

VisitedPaths == {visited[k] : k \in 1..Len(visited)}

\* C5: the streaming detector rejects every path that names the database/
\* subdirectory of a directory the block-level detector accepts, whatever the
\* subdirectory holds, and no scan reports such a subdirectory as a streaming
\* backup.
C5_DataSubdirectoryIsNeverStreaming ==
    /\ \A path \in VisitedPaths : IsDataSubdirectory(path) => ~pg_basebackup_detect(path)
    /\ \A i \in 1..Len(backups) :
          backups[i].tool = BACKUP_TOOL_PG_BASEBACKUP =>
              ~IsDataSubdirectory(backups[i].backup_path)

\* path satisfies the block-level detector and the streaming detector
SatisfiesBoth(path) == pg_probackup_detect(path) /\ pg_basebackup_detect(path)

\* C6: a directory that satisfies both detectors is classified as block-level:
\* detect_backup_type returns the block-level adapter for it and the record a
\* scan emits for it carries the block-level tool.
C6_BlockLevelTakesPrecedence ==
    /\ \A path \in VisitedPaths :
          SatisfiesBoth(path) => detect_backup_type(path) = BACKUP_TOOL_PG_PROBACKUP
    /\ \A i \in 1..Len(backups) :
          SatisfiesBoth(backups[i].backup_path) =>
              backups[i].tool = BACKUP_TOOL_PG_PROBACKUP

\* the document a file of the directory holds; "none" when it cannot be opened
DocumentOf(path, name) ==
    IF fopen(path_join(path, <<name>>)) /\ Resolve(path_join(path, <<name>>)) \in fs.files
    THEN fs.content[Resolve(path_join(path, <<name>>))]
    ELSE "none"

\* the required metadata of a detected directory is malformed or absent: for
\* the streaming dialect the label (as a file, else inside the archive) has no
\* START TIME and, without any label, the manifest has no WAL range; for the
\* block-level dialect the control file cannot be read or has no known key
MetadataUnusable(path) ==
    IF detect_backup_type(path) = BACKUP_TOOL_PG_BASEBACKUP
    THEN IF DocumentOf(path, "backup_label") # "none"
         THEN DocumentOf(path, "backup_label") = "LabelWithoutStartTime"
         ELSE IF is_tar_format(path)
         THEN \E n \in DirEntries(path) \cap BaseTarNames :
                  DocumentOf(path, n) = "TarWithoutStartTime"
         ELSE DocumentOf(path, "backup_manifest") \in {"none", "ManifestWithoutRange"}
    ELSE DocumentOf(path, "backup.control") \in {"none", "ControlWithoutKeys"}

\* the directories below the root of the scan, the root included
DirectoriesBelowRoot ==
    {d \in fs.dirs : /\ Len(d) >= Len(Resolve(backup_dir))
                     /\ SubSeq(d, 1, Len(Resolve(backup_dir))) = Resolve(backup_dir)}

\* the directories on the way from the root of the scan down to d, both included
WayTo(d) == {SubSeq(d, 1, k) : k \in Len(Resolve(backup_dir))..Len(d)}

\* the directories the walk can enter: they and the directories on the way to
\* them can be opened
DirectoriesTheWalkCanEnter ==
    {d \in DirectoriesBelowRoot : \A a \in WayTo(d) : a \notin fs.locked}

\* C7: a directory whose detection succeeds while its required metadata is
\* malformed or absent still gets a record, the record's status is ERROR, and
\* the scan goes on to the remaining directories.
C7_UnusableMetadataYieldsErrorRecord ==
    /\ \A path \in VisitedPaths :
          (detect_backup_type(path) # NoAdapter /\ MetadataUnusable(path)) =>
              \E i \in 1..Len(backups) :
                  /\ backups[i].backup_path = path
                  /\ backups[i].status = BACKUP_STATUS_ERROR
    /\ (pc = "scan_done" /\ max_depth = -1) =>
          {Resolve(path) : path \in VisitedPaths} = DirectoriesTheWalkCanEnter

\* the depth of the directory d below the root of the scan
DepthOf(d) == Len(d) - Len(Resolve(backup_dir))

WithinDepth(d) == max_depth = -1 \/ DepthOf(d) <= max_depth

VisitedDirectories == {Resolve(path) : path \in VisitedPaths}

C12_WitnessLocked ==
    /\ pc = "scan_done"
    /\ max_depth = -1
    /\ \E d \in DirectoriesBelowRoot : d \in fs.locked /\ d \notin VisitedDirectories

\* the directory a is d or lies on the way from the root down to d
IsAncestorOrSelf(a, d) == Len(a) <= Len(d) /\ SubSeq(d, 1, Len(a)) = a

\* the places in the visit order of the directories that got a record
RecordPlaces == {k \in 1..Len(visited) : \E i \in 1..Len(backups) :
                                             backups[i].backup_path = visited[k]}

\* C13: the walk is pre-order and the inventory follows it.  A directory is
\* visited before everything below it and the directories below it are
\* visited in one block right after it; the records are in the order in which
\* their directories were visited, one record per directory at most, so a
\* directory's record precedes the records of its descendants; a directory no
\* adapter matches adds no record; and once a walk without depth limit has
\* returned, every directory that can be entered has been visited, the ones
\* below a recognised backup and below an unrecognised directory included.
C13_InventoryIsPreOrder ==
    /\ \A i, j \in 1..Len(visited) :
          (i < j) => ~IsAncestorOrSelf(Resolve(visited[j]), Resolve(visited[i]))
    /\ \A i, j, k \in 1..Len(visited) :
          (i < k /\ k < j /\ IsAncestorOrSelf(Resolve(visited[i]), Resolve(visited[j])))
              => IsAncestorOrSelf(Resolve(visited[i]), Resolve(visited[k]))
    /\ Cardinality(RecordPlaces) = Len(backups)
    /\ \A i, j \in 1..Len(backups) :
          (i < j) => \E k, l \in 1..Len(visited) :
                        /\ k < l
                        /\ visited[k] = backups[i].backup_path
                        /\ visited[l] = backups[j].backup_path
    /\ \A i, j \in 1..Len(backups) :
          (i # j /\ IsAncestorOrSelf(Resolve(backups[i].backup_path),
                                     Resolve(backups[j].backup_path))) => i < j
    /\ \A path \in VisitedPaths :
          detect_backup_type(path) = NoAdapter =>
              \A i \in 1..Len(backups) : backups[i].backup_path # path
    /\ (pc = "scan_done" /\ max_depth = -1) =>
          VisitedDirectories = DirectoriesTheWalkCanEnter

\* a walk has returned that passed two unrecognised directories, found a
\* backup, and found a second backup in a subdirectory of the first
C13_Witness ==
    /\ pc = "scan_done"
    /\ Len(visited) >= 4
    /\ detect_backup_type(visited[1]) = NoAdapter
    /\ detect_backup_type(visited[2]) = NoAdapter
    /\ Len(backups) = 2
    /\ backups[1].backup_path = visited[3]
    /\ Resolve(backups[1].backup_path) # Resolve(backups[2].backup_path)
    /\ IsAncestorOrSelf(Resolve(backups[1].backup_path), Resolve(backups[2].backup_path))

(***************************************************************************)
(* ini_parser.c.  An IniFile is the sequence of its sections in file       *)
(* order, a section [name, kvs] with kvs the sequence of its [key, value]  *)
(* pairs in file order; NULL is NoIni.                                     *)
(***************************************************************************)
NoIni == <<[name |-> <<"NULL">>, kvs |-> <<>>]>>

\* strchr(str, c) as an index into str, 0 for NULL
strchr(str, c) ==
    IF \A i \in 1..Len(str) : str[i] # c THEN 0
    ELSE CHOOSE i \in 1..Len(str) : str[i] = c /\ \A j \in 1..(i - 1) : str[j] # c

\* the trailing part of trim_whitespace: str starts with no white space
TrimTrailing(str) == IF str = <<>> THEN str ELSE TrimEnd(str)

trim_whitespace(str) == TrimTrailing(SkipSpace(str))

\* lines 186-193: the value with a leading '"' and what follows the next '"'
\* removed
Unquoted(value) ==
    IF strchr(value, DoubleQuote) = 0 THEN value
    ELSE SubSeq(value, 1, strchr(value, DoubleQuote) - 1)

IniValue(value) ==
    IF value # <<>> /\ value[1] = DoubleQuote THEN Unquoted(Tail(value)) ELSE value

\* add_key_value on current_section, which is the last section of ini
add_key_value(ini, key, value) ==
    [ini EXCEPT ![Len(ini)].kvs = Append(@, [key |-> key, value |-> value])]

\* the body of the fgets loop for the line whose trimmed text is trimmed
IniLine(ini, trimmed) ==
    IF trimmed = <<>> \/ trimmed[1] \in {"#", ";"} THEN ini
    ELSE IF trimmed[1] = "["
    THEN IF strchr(trimmed, "]") # 0
         THEN Append(ini, [name |-> SubSeq(trimmed, 2, strchr(trimmed, "]") - 1),
                           kvs |-> <<>>])
         ELSE ini
    ELSE IF strchr(trimmed, "=") # 0 /\ ini # <<>>
    THEN add_key_value(ini,
             trim_whitespace(SubSeq(trimmed, 1, strchr(trimmed, "=") - 1)),
             IniValue(trim_whitespace(SubSeq(trimmed, strchr(trimmed, "=") + 1,
                                             Len(trimmed)))))
    ELSE ini

RECURSIVE IniLines(_, _)
IniLines(ini, lines) ==
    IF lines = <<>> THEN ini
    ELSE IniLines(IniLine(ini, trim_whitespace(Head(lines))), Tail(lines))

ini_parse_file(filepath) ==
    IF ~fopen(filepath) THEN NoIni ELSE IniLines(<<>>, ReadLines(filepath))

\* the place in ini of the first section of that name, 0 for NULL
ini_get_section(ini, section_name) ==
    IF ini = NoIni \/ \A i \in 1..Len(ini) : ini[i].name # section_name THEN 0
    ELSE CHOOSE i \in 1..Len(ini) :
             ini[i].name = section_name /\ \A j \in 1..(i - 1) : ini[j].name # section_name

NullValue == <<"NULL">>

\* the value of the first pair of the section with that key, NullValue for NULL
FirstValue(kvs, key) ==
    IF \A i \in 1..Len(kvs) : kvs[i].key # key THEN NullValue
    ELSE kvs[CHOOSE i \in 1..Len(kvs) :
                 kvs[i].key = key /\ \A j \in 1..(i - 1) : kvs[j].key # key].value

ini_get_value(ini, section_name, key) ==
    IF ini_get_section(ini, section_name) = 0 THEN NullValue
    ELSE FirstValue(ini[ini_get_section(ini, section_name)].kvs, key)

(***************************************************************************)
(* pgbackrest.c.  A key of a JSON object or of an INI section is one       *)
(* token.                                                                  *)
(***************************************************************************)
BACKUP_TOOL_PGBACKREST == "pgbackrest"

\* strstr(json, "\"<key>\":") as an index into json, 0 for NULL
JsonKeyAt(json, key) ==
    IF \A i \in 1..(Len(json) - 3) :
           SubSeq(json, i, i + 3) # <<DoubleQuote, key, DoubleQuote, ":">>
    THEN 0
    ELSE CHOOSE i \in 1..(Len(json) - 3) :
             /\ SubSeq(json, i, i + 3) = <<DoubleQuote, key, DoubleQuote, ":">>
             /\ \A j \in 1..(i - 1) :
                    SubSeq(json, j, j + 3) # <<DoubleQuote, key, DoubleQuote, ":">>

\* the length of the run of start that ends before ',', '}', white space or
\* the end of the text
RECURSIVE BareRun(_)
BareRun(start) ==
    IF start = <<>> \/ start[1] \in ({",", "}"} \cup WhiteSpace) THEN 0
    ELSE 1 + BareRun(Tail(start))

\* lines 532-552: start is the text after the key and the white space
JsonValueAt(start) ==
    IF start # <<>> /\ start[1] = DoubleQuote
    THEN IF strchr(Tail(start), DoubleQuote) = 0 THEN NullValue
         ELSE SubSeq(Tail(start), 1, strchr(Tail(start), DoubleQuote) - 1)
    ELSE SubSeq(start, 1, BareRun(start))

get_json_value(json, key) ==
    IF JsonKeyAt(json, key) = 0 THEN NullValue
    ELSE JsonValueAt(SkipSpace(SubSeq(json, JsonKeyAt(json, key) + 4, Len(json))))

is_pgbackrest_repo(path) ==
    /\ is_directory(path \o <<"/", "backup">>)
    /\ is_directory(path \o <<"/", "archive">>)

BackupTypeOr_ignoresValue(value, old) == old

\* the type a backup-type value sets; value is NullValue for NULL
BackupTypeOr(value, old) ==
    IF value = <<"full">> THEN BACKUP_TYPE_FULL
    ELSE IF value = <<"incr">> THEN BACKUP_TYPE_INCREMENTAL
    ELSE IF value = <<"diff">> THEN BACKUP_TYPE_DELTA
    ELSE old

\* if (value != NULL) field = atoll(value);
TimeOr(value, old) == IF value = NullValue THEN old ELSE atoi(value)

\* if (value != NULL) parse_lsn(value, &field);
LsnValueOr(value, old) ==
    IF value = NullValue THEN old ELSE ParsedLsnOr(parse_lsn(value), old)

\* sscanf(value, "%d", &major) with major = 0 before
VersionValueOr(value, old) == IF value = NullValue THEN old ELSE atoi(value) * 10000

\* lines 603-641: ini is the parsed manifest
ManifestFields(info, ini) ==
    [info EXCEPT
        !.backup_id = IF @ = <<>> /\ ini_get_value(ini, <<"backup">>, <<"backup-label">>)
                                         # NullValue
                      THEN ini_get_value(ini, <<"backup">>, <<"backup-label">>) ELSE @,
        !.type = BackupTypeOr(ini_get_value(ini, <<"backup">>, <<"backup-type">>), @),
        !.start_time =
            TimeOr(ini_get_value(ini, <<"backup">>, <<"backup-timestamp-start">>), @),
        !.end_time =
            TimeOr(ini_get_value(ini, <<"backup">>, <<"backup-timestamp-stop">>), @),
        !.start_lsn = LsnValueOr(ini_get_value(ini, <<"backup">>, <<"backup-lsn-start">>), @),
        !.stop_lsn = LsnValueOr(ini_get_value(ini, <<"backup">>, <<"backup-lsn-stop">>), @),
        !.pg_version =
            VersionValueOr(ini_get_value(ini, <<"backup:db">>, <<"db-version">>), @)]

\* the BackupInfo after parse_pgbackrest_manifest(info, manifest_path)
parse_pgbackrest_manifest(info, manifest_path) ==
    IF ~fopen(manifest_path) THEN info
    ELSE ManifestFields(info, ini_parse_file(manifest_path))

\* lines 682-725: the record of one catalog entry before its manifest is read
CatalogRecord(kv, backup_info_path) ==
    [ZeroBackupInfo EXCEPT
        !.backup_id = kv.key,
        !.tool = BACKUP_TOOL_PGBACKREST,
        !.status = BACKUP_STATUS_OK,
        !.type = BackupTypeOr(get_json_value(kv.value, "backup-type"), @),
        !.start_time = TimeOr(get_json_value(kv.value, "backup-timestamp-start"), @),
        !.end_time = TimeOr(get_json_value(kv.value, "backup-timestamp-stop"), @),
        !.start_lsn = LsnValueOr(get_json_value(kv.value, "backup-lsn-start"), @),
        !.stop_lsn = LsnValueOr(get_json_value(kv.value, "backup-lsn-stop"), @),
        !.backup_path = IF LastSlash(backup_info_path) = 0 THEN <<>>
                        ELSE SubSeq(backup_info_path, 1, LastSlash(backup_info_path) - 1)
                                 \o <<"/">> \o kv.key]

\* lines 727-735: info is the record of the entry
WithManifest(info, stanza_name) ==
    [parse_pgbackrest_manifest(info, path_join(info.backup_path, <<"backup.manifest">>))
        EXCEPT !.instance_name = <<stanza_name>>]

\* the records of the entries kvs of [backup:current], in their order
CatalogRecords(kvs, backup_info_path, stanza_name) ==
    [i \in 1..Len(kvs) |-> WithManifest(CatalogRecord(kvs[i], backup_info_path), stanza_name)]

\* section is the place of [backup:current] in ini
CatalogOf(ini, section, backup_info_path, stanza_name) ==
    IF section = 0 THEN <<>>
    ELSE CatalogRecords(ini[section].kvs, backup_info_path, stanza_name)

\* the list returned, as a sequence: <<>> for NULL
parse_pgbackrest_backup_info(backup_info_path, stanza_name) ==
    CatalogOf(ini_parse_file(backup_info_path),
              ini_get_section(ini_parse_file(backup_info_path), <<"backup:current">>),
              backup_info_path, stanza_name)

\* lines 785-820: the body of the readdir loop for the entry d_name
StanzaBackups(backup_base, d_name) ==
    IF ~is_directory(path_join(backup_base, <<d_name>>)) THEN <<>>
    ELSE IF ~file_exists(path_join(path_join(backup_base, <<d_name>>), <<"backup.info">>))
    THEN <<>>
    ELSE parse_pgbackrest_backup_info(
             path_join(path_join(backup_base, <<d_name>>), <<"backup.info">>), d_name)

\* entries is the sequence of the entries as readdir returns them
RECURSIVE StanzaLoop(_, _)
StanzaLoop(backup_base, entries) ==
    IF entries = <<>> THEN <<>>
    ELSE StanzaBackups(backup_base, Head(entries)) \o StanzaLoop(backup_base, Tail(entries))

scan_pgbackrest_backups(repo_path, entries) ==
    IF ~opendir(repo_path \o <<"/", "backup">>) THEN <<>>
    ELSE StanzaLoop(repo_path \o <<"/", "backup">>, entries)

pgbackrest_detect(path) == is_pgbackrest_repo(path)

\* pgbackrest_adapter.scan(path)
RepoScan ==
    /\ pc = "repo_start"
    /\ \E entries \in Orders(DirEntries(backup_dir \o <<"/", "backup">>)) :
          backups' = scan_pgbackrest_backups(backup_dir, entries)
    /\ pc' = "repo_done"
    /\ UNCHANGED <<cliVars, algVars, fsVars, backup_dir, max_depth, stack, visited, valVars, walVars, opts,
                   current, backup_count, backups_validated, backups_skipped, total_errors,
                   total_warnings, validation_log, verdict, exit_code>>

\* the repository root of the modelled file systems
RepoDir == <<"repo">>

BackupIds == {"20240108-100530F", "20240108-120000D", "20240109-143015I"}

\* the manifest each backup directory holds, "none" for no manifest
ManifestPlans ==
    [own |-> [F |-> "ManifestFull17", D |-> "ManifestDiff17", I |-> "ManifestIncr17"],
     none |-> [F |-> "none", D |-> "none", I |-> "none"],
     crossed |-> [F |-> "ManifestIncr17", D |-> "none", I |-> "ManifestFull16"],
     mixed |-> [F |-> "ManifestFull16", D |-> "ManifestDiff17", I |-> "ManifestIncr17"],
     partial |-> [F |-> "ManifestFull17", D |-> "none", I |-> "ManifestVersionOnly"]]

\* the last character of a backup id names its kind
KindLetter(id) == IF id = "20240108-100530F" THEN "F"
                  ELSE IF id = "20240108-120000D" THEN "D" ELSE "I"

\* repositories: the catalog of stanza main ("none" for no backup.info), the
\* manifests, whether backup/ holds a second stanza db2, a plain file db2 or
\* neither, and whether archive/ exists
RepoScenarios ==
    [main : {"CatalogTwo", "CatalogReversed", "CatalogThree", "CatalogEmpty",
             "CatalogNoSection", "none"},
     manifests : DOMAIN ManifestPlans,
     other : {"absent", "stanza", "file"},
     archive : BOOLEAN]

RepoStanzas(sc) == IF sc.other = "stanza" THEN {"main", "db2"} ELSE {"main"}

RepoCatalogs(sc) ==
    {RepoDir \o <<"backup", s, "backup.info">> :
        s \in {t \in RepoStanzas(sc) : t = "db2" \/ sc.main # "none"}}

RepoManifests(sc) ==
    {RepoDir \o <<"backup", s, id, "backup.manifest">> :
        s \in RepoStanzas(sc),
        id \in {i \in BackupIds : ManifestPlans[sc.manifests][KindLetter(i)] # "none"}}

RepoContent(f, sc) ==
    IF f[Len(f)] = "backup.manifest" THEN ManifestPlans[sc.manifests][KindLetter(f[4])]
    ELSE IF f[Len(f)] = "db2" THEN "CatalogTwo"
    ELSE IF f[3] = "db2" THEN "CatalogTwo"
    ELSE sc.main

RepoFs(sc) ==
    [dirs |-> {<<>>, RepoDir, RepoDir \o <<"backup">>}
                  \cup (IF sc.archive THEN {RepoDir \o <<"archive">>} ELSE {})
                  \cup {RepoDir \o <<"backup", s>> : s \in RepoStanzas(sc)}
                  \cup {RepoDir \o <<"backup", s, id>> :
                            s \in RepoStanzas(sc), id \in BackupIds},
     files |-> RepoCatalogs(sc) \cup RepoManifests(sc)
                   \cup (IF sc.other = "file" THEN {RepoDir \o <<"backup", "db2">>} ELSE {}),
     locked |-> {},
     content |-> [f \in RepoCatalogs(sc) \cup RepoManifests(sc)
                           \cup (IF sc.other = "file" THEN {RepoDir \o <<"backup", "db2">>}
                                 ELSE {})
                     |-> RepoContent(f, sc)],
     mtime |-> 0]

RepoFileSystems == {RepoFs(sc) : sc \in RepoScenarios}

InitRepo ==
    /\ pc = "repo_start"
    /\ fs \in RepoFileSystems
    /\ cwd = <<>>
    /\ backup_dir = <<"/", "repo">>
    /\ max_depth = -1
    /\ stack = <<>>
    /\ visited = <<>>
    /\ backup = ZeroBackupInfo
    /\ result = NoResult
    /\ wal_info = WalInfoOf({})
    /\ IdleWalLocals
    /\ IdleAlg
    /\ IdleCli
    /\ IdleCheck

NextRepo == RepoScan

SpecRepo == InitRepo /\ [][NextRepo]_vars

(***************************************************************************)
(* Properties of the repository dialect.                                   *)
(***************************************************************************)
\* what the catalogs list, read off the documents by hand
CatalogEntries ==
    [CatalogTwo |-> <<[id |-> "20240108-100530F", type |-> BACKUP_TYPE_FULL],
                      [id |-> "20240109-143015I", type |-> BACKUP_TYPE_INCREMENTAL]>>,
     CatalogReversed |-> <<[id |-> "20240109-143015I", type |-> BACKUP_TYPE_INCREMENTAL],
                           [id |-> "20240108-100530F", type |-> BACKUP_TYPE_FULL]>>,
     CatalogThree |-> <<[id |-> "20240108-100530F", type |-> BACKUP_TYPE_FULL],
                        [id |-> "20240108-120000D", type |-> BACKUP_TYPE_DELTA],
                        [id |-> "20240109-143015I", type |-> BACKUP_TYPE_INCREMENTAL]>>,
     CatalogEmpty |-> <<>>,
     CatalogNoSection |-> <<>>]

\* what the manifests say, read off the documents by hand
ManifestSays ==
    [ManifestFull17 |-> [type |-> BACKUP_TYPE_FULL, version |-> 170000],
     ManifestIncr17 |-> [type |-> BACKUP_TYPE_INCREMENTAL, version |-> 170000],
     ManifestDiff17 |-> [type |-> BACKUP_TYPE_DELTA, version |-> 170000],
     ManifestFull16 |-> [type |-> BACKUP_TYPE_FULL, version |-> 160000],
     ManifestIncr16 |-> [type |-> BACKUP_TYPE_INCREMENTAL, version |-> 160000],
     ManifestVersionOnly |-> [type |-> "none", version |-> 170000]]

\* the stanza directories that hold a catalog file
StanzasWithCatalog ==
    {s \in {"main", "db2"} : RepoDir \o <<"backup", s, "backup.info">> \in fs.files}

ListedIn(s) == CatalogEntries[fs.content[RepoDir \o <<"backup", s, "backup.info">>]]

\* the records of stanza s, in inventory order
RecordsOf(s) == SelectSeq(backups, LAMBDA r : r.instance_name = <<s>>)

HasManifest(s, id) == RepoDir \o <<"backup", s, id, "backup.manifest">> \in fs.files

OwnManifest(s, id) == ManifestSays[fs.content[RepoDir \o <<"backup", s, id, "backup.manifest">>]]

\* what C14 says of every record but its kind
RecordsFollowCatalog(s) ==
    /\ Len(RecordsOf(s)) = Len(ListedIn(s))
    /\ \A i \in 1..Len(ListedIn(s)) :
          /\ RecordsOf(s)[i].backup_id = <<ListedIn(s)[i].id>>
          /\ RecordsOf(s)[i].tool = BACKUP_TOOL_PGBACKREST
          /\ HasManifest(s, ListedIn(s)[i].id)
                => RecordsOf(s)[i].pg_version = OwnManifest(s, ListedIn(s)[i].id).version

\* C14 as stated: scanning a stanza whose catalog lists n entries returns n
\* records in catalog order, each with the entry's key as identifier, the
\* kind of the entry's backup-type, the stanza directory's name as label
\* and the engine version of its own manifest.
C14_KindFollowsCatalogEntry ==
    pc = "repo_done" =>
        \A s \in StanzasWithCatalog :
            /\ RecordsFollowCatalog(s)
            /\ \A i \in 1..Len(ListedIn(s)) : RecordsOf(s)[i].type = ListedIn(s)[i].type

\* C14, amended: as above, but the kind is the one of the backup-type its
\* own manifest names when it has a manifest that names one, and the one of
\* the entry's backup-type otherwise.
C14_KindFollowsManifestThenEntry ==
    pc = "repo_done" =>
        /\ Len(backups) = Len(RecordsOf("main")) + Len(RecordsOf("db2"))
        /\ \A s \in StanzasWithCatalog :
            /\ RecordsFollowCatalog(s)
            /\ \A i \in 1..Len(ListedIn(s)) :
                  RecordsOf(s)[i].type =
                      IF /\ HasManifest(s, ListedIn(s)[i].id)
                         /\ OwnManifest(s, ListedIn(s)[i].id).type # "none"
                      THEN OwnManifest(s, ListedIn(s)[i].id).type
                      ELSE ListedIn(s)[i].type

\* the scan of a stanza of two entries, the full one with the manifest of
\* an incremental backup, has returned
C14_Witness ==
    /\ pc = "repo_done"
    /\ "main" \in StanzasWithCatalog
    /\ ListedIn("main") = CatalogEntries.CatalogTwo
    /\ HasManifest("main", "20240108-100530F")
    /\ OwnManifest("main", "20240108-100530F").type = BACKUP_TYPE_INCREMENTAL
    /\ Len(RecordsOf("main")) = 2
    /\ RecordsOf("main")[1].type = BACKUP_TYPE_INCREMENTAL
    /\ RecordsOf("main")[2].pg_version = 160000

\* scan_backup_directory on a tree that holds a repository root
RepoWalkScenarios ==
    {sc \in RepoScenarios : sc.manifests = "own" /\ sc.main \in {"CatalogTwo", "none"}}

InitRepoWalk ==
    /\ pc = "scan_start"
    /\ fs \in {RepoFs(sc) : sc \in RepoWalkScenarios}
    /\ cwd = <<>>
    /\ \E r \in {[dir |-> <<"/">>, max_depth |-> -1],
                  [dir |-> <<"/", "repo">>, max_depth |-> -1],
                  [dir |-> <<"/", "repo">>, max_depth |-> 0],
                  [dir |-> <<"/">>, max_depth |-> 0]} :
          backup_dir = r.dir /\ max_depth = r.max_depth
    /\ stack = <<>>
    /\ visited = <<>>
    /\ backup = ZeroBackupInfo
    /\ result = NoResult
    /\ wal_info = WalInfoOf({})
    /\ IdleWalLocals
    /\ IdleAlg
    /\ IdleCli
    /\ IdleCheck

SpecRepoWalk == InitRepoWalk /\ [][NextScan]_vars

\* the examined directories that are repository roots and match no other
\* dialect
RepositoryRootsExamined ==
    {i \in 1..Len(visited) :
        /\ is_pgbackrest_repo(visited[i])
        /\ ~pg_basebackup_detect(visited[i])
        /\ ~pg_probackup_detect(visited[i])}

\* C15: for a directory with backup/ and archive/ subdirectories that matches
\* no other dialect detect_backup_type returns the repository-dialect
\* adapter, and the inventory of a scan that examined such a root holds the
\* backups its catalogs list.
C15_RegistryCoversRepositoryDialect ==
    /\ \A i \in RepositoryRootsExamined :
          detect_backup_type(visited[i]) = BACKUP_TOOL_PGBACKREST
    /\ pc = "scan_done" /\ RepositoryRootsExamined # {} =>
          \A s \in StanzasWithCatalog : \A i \in 1..Len(ListedIn(s)) :
              \E k \in 1..Len(backups) :
                  /\ backups[k].tool = BACKUP_TOOL_PGBACKREST
                  /\ backups[k].backup_id = <<ListedIn(s)[i].id>>

(***************************************************************************)
(* parse_lsn and format_lsn on their own: a text is parsed and the value   *)
(* formatted back, or a value is formatted and the text parsed back.       *)
(***************************************************************************)
\* the halves of the texts handed to parse_lsn
LsnHalves ==
    {<<>>, <<"0">>, <<"1">>, <<"a">>, <<"A">>, <<"1", "f">>, <<"0", "0", "A">>, <<"G">>,
     <<" ", "1">>, <<"1", " ">>, <<"+", "1">>, <<"-", "1">>, <<"0", "x", "1">>,
     <<"0", "x">>, <<"F", "e", "x">>,
     <<"3", "F", "F", "F", "F", "F", "F", "F">>, <<"4", "0", "0", "0", "0", "0", "0", "0">>}

LsnTexts ==
    LsnHalves
        \cup {u \o <<"/">> \o l : u \in LsnHalves, l \in LsnHalves}
        \cup {u \o <<"/">> \o l \o <<"/", "2">> : u \in {<<"1">>}, l \in {<<>>, <<"1">>}}

LsnWords == {0, 1, 10, 255, 4096, LsnWord - 1}

LsnValues == [hi : LsnWords, lo : LsnWords]

InitLsn ==
    /\ IdleCli
    /\ \/ /\ pc = "parse_text"
          /\ lsn_str \in LsnTexts
          /\ lsn_val = ZeroLsn
          /\ given = lsn_str
       \/ /\ pc = "format_value"
          /\ lsn_str = <<>>
          /\ lsn_val \in LsnValues
          /\ given = lsn_val
    /\ wal_name = <<>>
    /\ seg_args = [lsn |-> 0, timeline |-> 0, wal_segment_size |-> 0]
    /\ seg_out = NoSeg
    /\ ret = "none"
    /\ fs = EmptyFs
    /\ cwd = <<>>
    /\ IdleScan
    /\ backup = ZeroBackupInfo
    /\ wal_info = WalInfoOf({})
    /\ IdleWalLocals
    /\ result = NoResult
    /\ IdleCheck

\* ret = parse_lsn(lsn_str, &lsn_val)
ParseLsn ==
    /\ pc \in {"parse_text", "parse_back"}
    /\ ret' = parse_lsn(lsn_str).ok
    /\ lsn_val' = IF parse_lsn(lsn_str).ok THEN parse_lsn(lsn_str).lsn ELSE lsn_val
    /\ pc' = IF pc = "parse_back" THEN "value_done"
             ELSE IF parse_lsn(lsn_str).ok THEN "format_back" ELSE "text_done"
    /\ UNCHANGED <<cliVars, lsn_str, wal_name, seg_args, seg_out, given, fsVars, scanVars, valVars,
                   walVars, checkVars>>

\* format_lsn(lsn_val, lsn_str, sizeof(lsn_str))
FormatLsn ==
    /\ pc \in {"format_value", "format_back"}
    /\ lsn_str' = format_lsn(lsn_val)
    /\ pc' = IF pc = "format_value" THEN "parse_back" ELSE "text_done"
    /\ UNCHANGED <<cliVars, lsn_val, wal_name, seg_args, seg_out, ret, given, fsVars, scanVars,
                   valVars, walVars, checkVars>>

NextLsn == ParseLsn \/ FormatLsn

SpecLsn == InitLsn /\ [][NextLsn]_vars

(***************************************************************************)
(* Properties of parse_lsn and format_lsn.                                 *)
(***************************************************************************)
\* the place of the only '/' of text, 0 when it has none or several
OnlySlash(text) ==
    IF Cardinality({i \in 1..Len(text) : text[i] = "/"}) # 1 THEN 0
    ELSE CHOOSE i \in 1..Len(text) : text[i] = "/"

\* a non-empty run of hexadecimal digits of either case
IsHexHalf(half) ==
    /\ half # <<>>
    /\ \A i \in 1..Len(half) :
          half[i] \in {HexDigits[k] : k \in 1..16} \cup {LowerHexDigits[k] : k \in 1..16}

UpperHalf(text) == SubSeq(text, 1, OnlySlash(text) - 1)

LowerHalf(text) == SubSeq(text, OnlySlash(text) + 1, Len(text))

\* text has the form HEX/HEX
IsLsnText(text) ==
    /\ OnlySlash(text) # 0
    /\ IsHexHalf(UpperHalf(text))
    /\ IsHexHalf(LowerHalf(text))

\* the text of the run started from has been parsed
TextParsed == pc \in {"format_back", "text_done"}

\* C16: parse_lsn succeeds exactly on the texts of the form HEX/HEX: it fails
\* without a slash, with a character that is no hex digit in either half (a
\* leading 0x, a sign, white space) and with characters after the lower half.
C16_ParseLsnAcceptsExactlyHexOverHex ==
    TextParsed => (ret = IsLsnText(given))

\* the digits of half in upper case
UpperCased(half) ==
    [i \in 1..Len(half) |-> HexDigits[HexDigitValue(half[i]) + 1]]

\* half without its leading zeros, the last digit kept
RECURSIVE WithoutLeadingZeros(_)
WithoutLeadingZeros(half) ==
    IF Len(half) > 1 /\ half[1] = "0" THEN WithoutLeadingZeros(Tail(half)) ELSE half

Normalized(text) ==
    WithoutLeadingZeros(UpperCased(UpperHalf(text))) \o <<"/">>
        \o WithoutLeadingZeros(UpperCased(LowerHalf(text)))

\* the value of each half fits a 32-bit word
HalvesFitWords(text) ==
    /\ HexValue(UpperHalf(text)) < LsnWord
    /\ HexValue(LowerHalf(text)) < LsnWord

\* C17: parse_lsn(format_lsn(lsn)) succeeds and returns lsn for every lsn,
\* and format_lsn(parse_lsn(s)) is s in upper case without the leading
\* zeros of its halves for every text s of the form HEX/HEX.
C17_RoundTripOnEveryHexText ==
    /\ pc = "value_done" => ret = TRUE /\ lsn_val = given
    /\ pc = "text_done" /\ IsLsnText(given) => ret = TRUE /\ lsn_str = Normalized(given)

\* what does hold: the round trip of the values, and of the texts of the
\* form HEX/HEX whose halves each denote a value below 2^32
RoundTripOnTextsThatFit ==
    /\ pc = "value_done" => ret = TRUE /\ lsn_val = given
    /\ pc = "text_done" /\ IsLsnText(given) /\ HalvesFitWords(given) =>
          ret = TRUE /\ lsn_str = Normalized(given)

\* "00A/1f" has been parsed and formatted back as "A/1F"
RoundTripOfText ==
    /\ pc = "text_done"
    /\ given = <<"0", "0", "A", "/", "1", "f">>
    /\ ret = TRUE
    /\ lsn_val = [hi |-> 10, lo |-> 31]
    /\ lsn_str = <<"A", "/", "1", "F">>

\* a value with both words at their maximum has been formatted and parsed back
RoundTripOfValue ==
    /\ pc = "value_done"
    /\ given = [hi |-> LsnWord - 1, lo |-> LsnWord - 1]
    /\ lsn_val = given

(***************************************************************************)
(* lsn_to_seg on its own.                                                  *)
(***************************************************************************)
\* segment sizes: unspecified, 16 MiB, 1 MiB and 64 MiB
SegSizes == {0, WalSegSize, WalSegSize \div 16, WalSegSize * 4}

\* LSNs at the start, inside and at the end of the 16 MiB segments up to the
\* one after the second wrap of seg_id
SegLsns ==
    {k * WalSegSize + off : k \in 0..(2 * SegIdModulus + 1),
                            off \in {0, 40, WalSegSize \div 16, WalSegSize - 1}}

InitSeg ==
    /\ IdleCli
    /\ pc = "seg_start"
    /\ seg_args \in [lsn : SegLsns, timeline : 0..MaxTimeline, wal_segment_size : SegSizes]
    /\ seg_out = NoSeg
    /\ lsn_str = <<>>
    /\ lsn_val = ZeroLsn
    /\ wal_name = <<>>
    /\ ret = "none"
    /\ given = <<>>
    /\ fs = EmptyFs
    /\ cwd = <<>>
    /\ IdleScan
    /\ backup = ZeroBackupInfo
    /\ wal_info = WalInfoOf({})
    /\ IdleWalLocals
    /\ result = NoResult
    /\ IdleCheck

\* lsn_to_seg(lsn, timeline, &seg_out, wal_segment_size)
LsnToSeg ==
    /\ pc = "seg_start"
    /\ seg_out' = lsn_to_seg(seg_args.lsn, seg_args.timeline, seg_args.wal_segment_size)
    /\ pc' = "seg_done"
    /\ UNCHANGED <<cliVars, lsn_str, lsn_val, wal_name, seg_args, ret, given, fsVars, scanVars,
                   valVars, walVars, checkVars>>

NextSeg == LsnToSeg

SpecSeg == InitSeg /\ [][NextSeg]_vars

(***************************************************************************)
(* Properties of lsn_to_seg.                                               *)
(***************************************************************************)
\* (log_id, seg_id) of a is lexicographically at most that of b
SegLeq(a, b) == a.log_id < b.log_id \/ (a.log_id = b.log_id /\ a.seg_id <= b.seg_id)

\* C18: for a fixed timeline and segment size lsn_to_seg is monotonic
\* non-decreasing in lsn, lexicographically on (log_id, seg_id), and returns
\* the timeline unchanged.
C18_LsnToSegIsMonotonic ==
    pc = "seg_done" =>
        /\ seg_out.timeline = seg_args.timeline
        /\ \A a \in SegLsns :
              /\ a <= seg_args.lsn =>
                    SegLeq(lsn_to_seg(a, seg_args.timeline, seg_args.wal_segment_size),
                           seg_out)
              /\ a >= seg_args.lsn =>
                    SegLeq(seg_out,
                           lsn_to_seg(a, seg_args.timeline, seg_args.wal_segment_size))

\* an LSN past the wrap of seg_id has been converted: its seg_id is below
\* the seg_id of a smaller LSN, its log_id above
C18_Witness ==
    /\ pc = "seg_done"
    /\ seg_args.lsn = SegIdModulus * WalSegSize + 40
    /\ seg_args.wal_segment_size = WalSegSize
    /\ seg_out.log_id = 1
    /\ seg_out.seg_id = 0
    /\ lsn_to_seg(WalSegSize, seg_args.timeline, WalSegSize).seg_id = 1

\* the segment size lsn_to_seg divides by
SizeUsed == IF seg_args.wal_segment_size = 0 THEN 16 * 1024 * 1024
            ELSE seg_args.wal_segment_size

\* C19: the segment number is lsn div size', size' being 16 MiB when the
\* size is 0; log_id is the segment number div 2^32 and seg_id the segment
\* number mod 2^32, so that seg_id wraps into log_id.
C19_SegmentNumberSplit ==
    pc = "seg_done" =>
        /\ seg_out.log_id * SegIdModulus + seg_out.seg_id = seg_args.lsn \div SizeUsed
        /\ seg_out.seg_id \in 0..(SegIdModulus - 1)
        /\ seg_out.log_id = (seg_args.lsn \div SizeUsed) \div SegIdModulus

\* the segment one past the wrap of seg_id, with the size left unspecified:
\* log_id 1, seg_id 1
C19_Witness ==
    /\ pc = "seg_done"
    /\ seg_args.lsn = (SegIdModulus + 1) * WalSegSize
    /\ seg_args.wal_segment_size = 0
    /\ seg_out = [timeline |-> seg_args.timeline, log_id |-> 1, seg_id |-> 1]

(***************************************************************************)
(* xlog.c: parse_wal_filename, and the function on its own.                *)
(***************************************************************************)
isxdigit(c) == IsHexDigit(c)

is_hex_string(text, len) == \A i \in 1..len : isxdigit(text[i])

NoName == [ok |-> FALSE, seg |-> NoSeg]

\* lines 177-202: the (uint32_t) of the three unsigned longs; each r is what
\* strtoul made of a copy of eight characters
WalNameFields(timeline, log_id, seg_id) ==
    IF timeline.end # 8 THEN NoName
    ELSE IF log_id.end # 8 THEN NoName
    ELSE IF seg_id.end # 8 THEN NoName
    ELSE [ok |-> TRUE,
          seg |-> [timeline |-> timeline.lo, log_id |-> log_id.lo, seg_id |-> seg_id.lo]]

\* parse_wal_filename(wal_file, &result): ok is the value returned, seg what
\* *result is set to
parse_wal_filename_prefixOnly(wal_file) ==
    IF Len(wal_file) < 24 THEN NoName
    ELSE IF ~is_hex_string(wal_file, 24) THEN NoName
    ELSE WalNameFields(strtoul(SubSeq(wal_file, 1, 8)), strtoul(SubSeq(wal_file, 9, 16)),
                       strtoul(SubSeq(wal_file, 17, 24)))

parse_wal_filename(wal_file) ==
    IF Len(wal_file) # 24 THEN NoName
    ELSE IF ~is_hex_string(wal_file, 24) THEN NoName
    ELSE WalNameFields(strtoul(SubSeq(wal_file, 1, 8)), strtoul(SubSeq(wal_file, 9, 16)),
                       strtoul(SubSeq(wal_file, 17, 24)))

\* groups of eight characters: hex digits of either case (the values below
\* the modelled word), and groups with a character that is no hex digit
NameGroups ==
    {<<"0", "0", "0", "0", "0", "0", "0", "0">>, <<"0", "0", "0", "0", "0", "0", "0", "1">>,
     <<"0", "0", "0", "0", "0", "0", "A", "b">>, <<"3", "F", "F", "F", "F", "F", "F", "F">>,
     <<"0", "0", "0", "0", "0", "0", "0", "G">>, <<"0", "x", "0", "0", "0", "0", "0", "1">>,
     <<" ", "0", "0", "0", "0", "0", "0", "1">>, <<"-", "0", "0", "0", "0", "0", "0", "1">>,
     <<"0", "0", "0", "0", "0", "0", "1", ".">>}

GoodWalName ==
    <<"0", "0", "0", "0", "0", "0", "0", "1">> \o <<"0", "0", "0", "0", "0", "0", "0", "0">>
        \o <<"0", "0", "0", "0", "0", "0", "A", "b">>

\* names of 24 characters, and names that are shorter or longer
WalNames ==
    {a \o b \o c : a \in NameGroups, b \in NameGroups, c \in NameGroups}
        \cup {SubSeq(GoodWalName, 1, n) : n \in {0, 1, 8, 16, 23}}
        \cup {GoodWalName \o tail :
                 tail \in {<<"0">>, <<".", "g", "z">>, SubSeq(GoodWalName, 1, 8),
                           GoodWalName}}

InitName ==
    /\ IdleCli
    /\ pc = "name_start"
    /\ wal_name \in WalNames
    /\ seg_out = NoSeg
    /\ seg_args = [lsn |-> 0, timeline |-> 0, wal_segment_size |-> 0]
    /\ lsn_str = <<>>
    /\ lsn_val = ZeroLsn
    /\ ret = "none"
    /\ given = <<>>
    /\ fs = EmptyFs
    /\ cwd = <<>>
    /\ IdleScan
    /\ backup = ZeroBackupInfo
    /\ wal_info = WalInfoOf({})
    /\ IdleWalLocals
    /\ result = NoResult
    /\ IdleCheck

\* ret = parse_wal_filename(wal_name, &seg_out)
ParseWalFilename ==
    /\ pc = "name_start"
    /\ ret' = parse_wal_filename(wal_name).ok
    /\ seg_out' = IF parse_wal_filename(wal_name).ok THEN parse_wal_filename(wal_name).seg
                  ELSE seg_out
    /\ pc' = "name_done"
    /\ UNCHANGED <<cliVars, lsn_str, lsn_val, wal_name, seg_args, given, fsVars, scanVars, valVars,
                   walVars, checkVars>>

NextName == ParseWalFilename

SpecName == InitName /\ [][NextName]_vars

(***************************************************************************)
(* Properties of parse_wal_filename.                                       *)
(***************************************************************************)
\* C20: parse_wal_filename returns a segment name exactly for the names of
\* 24 hexadecimal characters; timeline, log_id and seg_id are the values of
\* the first, second and third group of eight characters; every other name
\* is answered with false and the result left alone.
C20_ExactlyTwentyFourHexCharacters ==
    pc = "name_done" =>
        /\ ret \in BOOLEAN
        /\ ret = (Len(wal_name) = 24 /\ IsHexHalf(wal_name))
        /\ ret = TRUE =>
              seg_out = [timeline |-> HexValue(SubSeq(wal_name, 1, 8)),
                         log_id |-> HexValue(SubSeq(wal_name, 9, 16)),
                         seg_id |-> HexValue(SubSeq(wal_name, 17, 24))]
        /\ ret = FALSE => seg_out = NoSeg

\* 00000001 00000000 000000Ab has been parsed: timeline 1, log_id 0, seg_id 171
C20_Witness ==
    /\ pc = "name_done"
    /\ wal_name = GoodWalName
    /\ ret = TRUE
    /\ seg_out = [timeline |-> 1, log_id |-> 0, seg_id |-> 171]

(***************************************************************************)
(* file_utils.c: scan_wal_archive.  The names of the entries of the        *)
(* archive directory are sequences of characters.                          *)
(***************************************************************************)
MaxArchiveEntries == 3      \* an archive directory has at most this many entries

\* base with elem put before its first element that compares greater
RECURSIVE InsertSegment(_, _)
InsertSegment(base, elem) ==
    IF base = <<>> THEN <<elem>>
    ELSE IF compare_wal_segments(elem, Head(base)) <= 0 THEN <<elem>> \o base
    ELSE <<Head(base)>> \o InsertSegment(Tail(base), elem)

\* qsort(base, nmemb, sizeof(WALSegmentName), compare_wal_segments): elements
\* that compare equal are equal, so the outcome is one
qsort_asRead(base) == base

RECURSIVE qsort(_)
qsort(base) ==
    IF base = <<>> THEN <<>> ELSE InsertSegment(qsort(Tail(base)), Head(base))

\* lines 430-455: the readdir loop over entries, the names in readdir order
RECURSIVE ArchiveLoop(_)
ArchiveLoop(entries) ==
    IF entries = <<>> THEN <<>>
    ELSE IF Head(entries) = <<".">> \/ Head(entries) = <<".", ".">>
    THEN ArchiveLoop(Tail(entries))
    ELSE IF ~parse_wal_filename(Head(entries)).ok THEN ArchiveLoop(Tail(entries))
    ELSE <<parse_wal_filename(Head(entries)).seg>> \o ArchiveLoop(Tail(entries))

\* lines 459-474: segments is the array the loop filled
ArchiveInfo(segments) ==
    [segment_count |-> Len(segments), segments |-> qsort(segments)]

\* the names the archive directories are filled from
WalGroup(last) == <<"0", "0", "0", "0", "0", "0", "0", last>>

ArchiveNames ==
    {WalGroup("1") \o WalGroup("0") \o WalGroup("1"),
     WalGroup("1") \o WalGroup("0") \o WalGroup("a"),
     WalGroup("1") \o WalGroup("0") \o WalGroup("A"),
     WalGroup("1") \o WalGroup("1") \o WalGroup("0"),
     WalGroup("2") \o WalGroup("0") \o WalGroup("0"),
     WalGroup("1") \o WalGroup("0") \o WalGroup("1") \o <<".", "g", "z">>,
     WalGroup("1") \o WalGroup("0") \o WalGroup("G"),
     WalGroup("1") \o WalGroup("0"),
     <<"R", "E", "A", "D", "M", "E">>}

\* the archive /wal with the entries names; the first name of the pool, when
\* present, is a directory
ArchiveFs(names, readable) ==
    [dirs |-> {<<>>, <<"wal">>}
                  \cup {<<"wal", n>> : n \in names
                                          \cap {WalGroup("1") \o WalGroup("1") \o WalGroup("0")}},
     files |-> {<<"wal", n>> : n \in names
                                  \ {WalGroup("1") \o WalGroup("1") \o WalGroup("0")}},
     locked |-> IF readable THEN {} ELSE {<<"wal">>},
     content |-> <<>>,
     mtime |-> 0]

InitArchive ==
    /\ IdleCli
    /\ pc = "archive_start"
    /\ \E names \in {S \in SUBSET ArchiveNames : Cardinality(S) <= MaxArchiveEntries},
          readable \in BOOLEAN :
          fs = ArchiveFs(names, readable)
    /\ cwd = <<>>
    /\ given = <<"/", "wal">>
    /\ ret = "none"
    /\ lsn_str = <<>>
    /\ lsn_val = ZeroLsn
    /\ wal_name = <<>>
    /\ seg_args = [lsn |-> 0, timeline |-> 0, wal_segment_size |-> 0]
    /\ seg_out = NoSeg
    /\ IdleScan
    /\ backup = ZeroBackupInfo
    /\ wal_info = WalInfoOf({})
    /\ IdleWalLocals
    /\ result = NoResult
    /\ IdleCheck

\* wal_info = scan_wal_archive(given); ret is "NULL" when NULL is returned
ScanWalArchive ==
    /\ pc = "archive_start"
    /\ IF ~opendir(given)
       THEN ret' = "NULL" /\ UNCHANGED wal_info
       ELSE /\ ret' = "info"
            /\ \E entries \in Orders(DirEntries(given) \cup {<<".">>, <<".", ".">>}) :
                  wal_info' = ArchiveInfo(ArchiveLoop(entries))
    /\ pc' = "archive_done"
    /\ UNCHANGED <<cliVars, lsn_str, lsn_val, wal_name, seg_args, seg_out, given, fsVars, scanVars,
                   valVars, start_seg, stop_seg, current_seg, missing_count, checkVars>>

NextArchive == ScanWalArchive

SpecArchive == InitArchive /\ [][NextArchive]_vars

(***************************************************************************)
(* Properties of scan_wal_archive.                                         *)
(***************************************************************************)
\* the entries of the archive directory whose names are 24 hex characters
AcceptedEntries == {n \in DirEntries(given) : Len(n) = 24 /\ IsHexHalf(n)}

\* the segment a name of 24 hex characters names
SegmentOfName(n) ==
    [timeline |-> HexValue(SubSeq(n, 1, 8)), log_id |-> HexValue(SubSeq(n, 9, 16)),
     seg_id |-> HexValue(SubSeq(n, 17, 24))]

\* C21: the inventory of a readable directory holds one entry for each
\* directory entry whose name parse_wal_filename accepts and nothing else,
\* sorted ascending by (timeline, log_id, seg_id); other names are no error.
C21_ArchiveInventoryIsFilteredAndSorted ==
    pc = "archive_done" /\ opendir(given) =>
        /\ ret = "info"
        /\ wal_info.segment_count = Cardinality(AcceptedEntries)
        /\ Len(wal_info.segments) = wal_info.segment_count
        /\ \A n \in AcceptedEntries :
              Cardinality({i \in 1..Len(wal_info.segments) :
                              wal_info.segments[i] = SegmentOfName(n)})
                  = Cardinality({m \in AcceptedEntries : SegmentOfName(m) = SegmentOfName(n)})
        /\ \A i \in 1..Len(wal_info.segments) :
              \E n \in AcceptedEntries : wal_info.segments[i] = SegmentOfName(n)
        /\ \A i, j \in 1..Len(wal_info.segments) :
              i < j =>
                 \/ wal_info.segments[i].timeline < wal_info.segments[j].timeline
                 \/ /\ wal_info.segments[i].timeline = wal_info.segments[j].timeline
                    /\ wal_info.segments[i].log_id < wal_info.segments[j].log_id
                 \/ /\ wal_info.segments[i].timeline = wal_info.segments[j].timeline
                    /\ wal_info.segments[i].log_id = wal_info.segments[j].log_id
                    /\ wal_info.segments[i].seg_id <= wal_info.segments[j].seg_id

\* an archive with a segment of timeline 2, a segment of timeline 1 and
\* README has been scanned: two entries, timeline 2 last
C21_Witness ==
    /\ pc = "archive_done"
    /\ ret = "info"
    /\ <<"R", "E", "A", "D", "M", "E">> \in DirEntries(given)
    /\ Cardinality(DirEntries(given)) = 3
    /\ wal_info.segment_count = 2
    /\ wal_info.segments[1] = [timeline |-> 1, log_id |-> 0, seg_id |-> 10]
    /\ wal_info.segments[2].timeline = 2

(***************************************************************************)
(* The command line.  An argument is a token sequence: <<"--", name>> or   *)
(* <<"--", name, "=">> \o value for a long option, <<"-", c>> \o rest for  *)
(* short options, anything else an operand.  Option names are atoms, so    *)
(* the abbreviations getopt_long accepts cannot be written.                *)
(***************************************************************************)
EXIT_GENERAL_ERROR == 1
EXIT_INVALID_ARGUMENTS == 4

no_argument == 0
required_argument == 1

\* what getopt_long returns at the end of the options
GetoptEnd == [c |-> "-1", optarg |-> NullStr, name |-> "", args |-> <<>>, optind |-> 0]

GetoptUnknown(args, next) ==
    [c |-> "?", optarg |-> NullStr, name |-> "", args |-> args, optind |-> next]

\* a long option: the name up to "=", looked up in longopts
GetoptLong(args, i, longopts) ==
    LET elem == args[i]
        name == elem[2]
        has_value == Len(elem) >= 3 /\ elem[3] = "="
        hits == {k \in 1..Len(longopts) : longopts[k].name = name}
        k == CHOOSE h \in hits : TRUE
    IN  IF hits = {} \/ (Len(elem) >= 3 /\ ~has_value) THEN GetoptUnknown(args, i + 1)
        ELSE IF longopts[k].has_arg = no_argument
        THEN IF has_value THEN GetoptUnknown(args, i + 1)
             ELSE [c |-> longopts[k].val, optarg |-> NullStr, name |-> name,
                   args |-> args, optind |-> i + 1]
        ELSE IF has_value
        THEN [c |-> longopts[k].val, optarg |-> SubSeq(elem, 4, Len(elem)), name |-> name,
              args |-> args, optind |-> i + 1]
        ELSE IF i < Len(args)
        THEN [c |-> longopts[k].val, optarg |-> args[i + 1], name |-> name,
              args |-> args, optind |-> i + 2]
        ELSE GetoptUnknown(args, i + 1)

\* a short option: the letter looked up in optstring, a ":" after it asking
\* for an argument; the letters after a flag stay behind as a new cluster
GetoptShort(args, i, optstring) ==
    LET elem == args[i]
        ch == elem[2]
        rest == SubSeq(elem, 3, Len(elem))
        hits == {k \in 1..Len(optstring) : optstring[k] = ch /\ ch # ":"}
        k == CHOOSE h \in hits : TRUE
        wants_arg == k < Len(optstring) /\ optstring[k + 1] = ":"
        left == IF rest = <<>> THEN args ELSE [args EXCEPT ![i] = <<"-">> \o rest]
        after == IF rest = <<>> THEN i + 1 ELSE i
    IN  IF hits = {} THEN GetoptUnknown(left, after)
        ELSE IF ~wants_arg
        THEN [c |-> ch, optarg |-> NullStr, name |-> "", args |-> left, optind |-> after]
        ELSE IF rest # <<>>
        THEN [c |-> ch, optarg |-> rest, name |-> "", args |-> args, optind |-> i + 1]
        ELSE IF i < Len(args)
        THEN [c |-> ch, optarg |-> args[i + 1], name |-> "", args |-> args, optind |-> i + 2]
        ELSE GetoptUnknown(args, i + 1)

IsOptionElement(elem) == Len(elem) >= 2 /\ elem[1] \in {"-", "--"}

\* getopt_long(argc, argv, optstring, longopts, &option_index) with optind = i:
\* operands are passed over, a lone "--" ends the options
RECURSIVE getopt_long(_, _, _, _)
getopt_long(args, i, optstring, longopts) ==
    IF i > Len(args) \/ args[i] = <<"--">> THEN GetoptEnd
    ELSE IF ~IsOptionElement(args[i]) THEN getopt_long(args, i + 1, optstring, longopts)
    ELSE IF args[i][1] = "--" THEN GetoptLong(args, i, longopts)
    ELSE GetoptShort(args, i, optstring)

(***************************************************************************)
(* arg_parser.c                                                            *)
(***************************************************************************)
\* parse_int_argument(str, &result, option_name): strtol in base 10 must use
\* the whole text; the values written here stay far inside the range of int
parse_int_argument(str) ==
    LET r == ScanInt(str)
        endptr == IF r.ok THEN r.rest ELSE str
    IN  [ok |-> endptr = <<>>, result |-> IF r.ok THEN r.val ELSE 0]

(***************************************************************************)
(* cmd_list.c: the options of the list command                             *)
(***************************************************************************)
ListDefaults ==
    [backup_dir |-> NullStr, type_filter |-> <<"auto">>, status_filter |-> <<"all">>,
     format |-> <<"table">>, sort_by |-> <<"time">>, reverse |-> FALSE,
     limit |-> 0, max_depth |-> -1]

ListLongOptions ==
    <<[name |-> "backup-dir", has_arg |-> required_argument, val |-> "B"],
      [name |-> "type", has_arg |-> required_argument, val |-> "t"],
      [name |-> "status", has_arg |-> required_argument, val |-> "s"],
      [name |-> "format", has_arg |-> required_argument, val |-> "f"],
      [name |-> "sort-by", has_arg |-> required_argument, val |-> "0"],
      [name |-> "reverse", has_arg |-> no_argument, val |-> "r"],
      [name |-> "limit", has_arg |-> required_argument, val |-> "n"],
      [name |-> "max-depth", has_arg |-> required_argument, val |-> "d"],
      [name |-> "help", has_arg |-> no_argument, val |-> "h"]>>

ListOptString == <<"B", ":", "t", ":", "s", ":", "f", ":", "r", "n", ":", "d", ":", "h">>

\* the outcome of one case of the switch: ret = -1 goes on to the next option
ParseGoesOn(options, seen, c) == [ret |-> -1, opts |-> options, seen |-> seen \cup {c}]

ParseStops(code, options, seen) == [ret |-> code, opts |-> options, seen |-> seen]

\* the cases 'n' and 'd': an integer not below the least value allowed
ListIntCase(options, seen, c, field, least, optarg) ==
    LET n == parse_int_argument(optarg)
    IN  IF ~n.ok THEN ParseStops(EXIT_INVALID_ARGUMENTS, options, seen)
        ELSE IF n.result < least
        THEN ParseStops(EXIT_INVALID_ARGUMENTS, [options EXCEPT ![field] = n.result], seen)
        ELSE ParseGoesOn([options EXCEPT ![field] = n.result], seen, c)

\* the switch of parse_arguments on what getopt_long returned
ListCase(options, seen, got) ==
    IF got.c = "?" \/ got.c \in seen THEN ParseStops(EXIT_INVALID_ARGUMENTS, options, seen)
    ELSE IF got.c = "B" THEN ParseGoesOn([options EXCEPT !.backup_dir = got.optarg], seen, "B")
    ELSE IF got.c = "t" THEN ParseGoesOn([options EXCEPT !.type_filter = got.optarg], seen, "t")
    ELSE IF got.c = "s" THEN ParseGoesOn([options EXCEPT !.status_filter = got.optarg], seen, "s")
    ELSE IF got.c = "f" THEN ParseGoesOn([options EXCEPT !.format = got.optarg], seen, "f")
    ELSE IF got.c = "0"
    THEN IF got.name # "sort-by" THEN ParseGoesOn(options, seen, "")
         ELSE ParseGoesOn([options EXCEPT !.sort_by = got.optarg], seen, "0")
    ELSE IF got.c = "r" THEN ParseGoesOn([options EXCEPT !.reverse = TRUE], seen, "r")
    ELSE IF got.c = "n" THEN ListIntCase(options, seen, "n", "limit", 0, got.optarg)
    ELSE IF got.c = "d" THEN ListIntCase(options, seen, "d", "max_depth", -1, got.optarg)
    ELSE IF got.c = "h" THEN ParseStops(EXIT_SUCCESS, options, seen)
    ELSE ParseStops(EXIT_INVALID_ARGUMENTS, options, seen)

\* parse_arguments of the list command, from optind = i on
RECURSIVE ListArguments(_, _, _, _)
ListArgumentsNext(step, got) ==
    IF step.ret # -1 THEN [ret |-> step.ret, opts |-> step.opts]
    ELSE ListArguments(got.args, got.optind, step.opts, step.seen)

ListArguments(args, i, options, seen) ==
    LET got == getopt_long(args, i, ListOptString, ListLongOptions)
    IN  IF got.c = "-1" THEN [ret |-> -1, opts |-> options]
        ELSE ListArgumentsNext(ListCase(options, seen, got), got)

list_parse_arguments(args) == ListArguments(args, 2, ListDefaults, {})

(***************************************************************************)
(* cmd_list.c: filters, order and output of the list command               *)
(***************************************************************************)
\* the words the options are compared with, in lower case
LowerWords ==
    [w \in {"AUTO", "PG_BASEBACKUP", "PG_PROBACKUP", "ALL", "OK", "ERROR", "WARNING",
            "CORRUPT", "ORPHAN", "TIME", "END_TIME", "NAME", "SIZE"} |->
        CASE w = "AUTO" -> "auto" [] w = "PG_BASEBACKUP" -> "pg_basebackup"
          [] w = "PG_PROBACKUP" -> "pg_probackup" [] w = "ALL" -> "all" [] w = "OK" -> "ok"
          [] w = "ERROR" -> "error" [] w = "WARNING" -> "warning" [] w = "CORRUPT" -> "corrupt"
          [] w = "ORPHAN" -> "orphan" [] w = "TIME" -> "time" [] w = "END_TIME" -> "end_time"
          [] w = "NAME" -> "name" [] w = "SIZE" -> "size"]

tolower(w) == IF w \in DOMAIN LowerWords THEN LowerWords[w] ELSE w

\* strcasecmp(a, b) == 0
SameWord(a, b) == Len(a) = Len(b) /\ \A i \in 1..Len(a) : tolower(a[i]) = tolower(b[i])

\* the names of the inputs in byte order, for strcmp
Collation == <<"/", "A", "B", "C", "b1", "b2", "backups", "missing", "node1", "node2", "solo">>

Rank(w) == IF \E i \in 1..Len(Collation) : Collation[i] = w
           THEN CHOOSE i \in 1..Len(Collation) : Collation[i] = w ELSE 0

\* strcmp(a, b): negative, zero or positive
RECURSIVE strcmp(_, _)
strcmp(a, b) ==
    IF a = <<>> /\ b = <<>> THEN 0
    ELSE IF a = <<>> THEN -1
    ELSE IF b = <<>> THEN 1
    ELSE IF Rank(a[1]) # Rank(b[1]) THEN Rank(a[1]) - Rank(b[1])
    ELSE strcmp(Tail(a), Tail(b))

\* lines 184-215
list_validate_options(options) ==
    IF options.backup_dir = NullStr THEN EXIT_INVALID_ARGUMENTS
    ELSE IF ~is_directory(options.backup_dir) THEN EXIT_GENERAL_ERROR
    ELSE IF ~\E t \in {"auto", "pg_basebackup", "pg_probackup"} : SameWord(options.type_filter, <<t>>)
    THEN EXIT_INVALID_ARGUMENTS
    ELSE IF options.format \notin {<<"table">>, <<"json">>, <<"yaml">>} THEN EXIT_INVALID_ARGUMENTS
    ELSE EXIT_SUCCESS

ToolNamed(w) == IF w = "pg_basebackup" THEN BACKUP_TOOL_PG_BASEBACKUP ELSE BACKUP_TOOL_PG_PROBACKUP

StatusNamed(w) ==
    CASE w = "ok" -> BACKUP_STATUS_OK [] w = "error" -> BACKUP_STATUS_ERROR
      [] w = "warning" -> BACKUP_STATUS_WARNING [] w = "corrupt" -> BACKUP_STATUS_CORRUPT
      [] w = "orphan" -> BACKUP_STATUS_ORPHAN

\* lines 221-255
matches_filters(b, options) ==
    /\ \A t \in {"pg_basebackup", "pg_probackup"} :
          SameWord(options.type_filter, <<t>>) => b.tool = ToolNamed(t)
    /\ \A w \in {"ok", "error", "warning", "corrupt", "orphan"} :
          SameWord(options.status_filter, <<w>>) => b.status = StatusNamed(w)

\* the comparators of lines 261-338; the records carry no data_bytes, so
\* every size compares equal
CompareBackups(a, b, sort_by) ==
    IF SameWord(sort_by, <<"end_time">>)
    THEN IF a.end_time = 0 /\ b.end_time # 0 THEN 1
         ELSE IF a.end_time # 0 /\ b.end_time = 0 THEN -1
         ELSE a.end_time - b.end_time
    ELSE IF SameWord(sort_by, <<"name">>) THEN strcmp(a.backup_id, b.backup_id)
    ELSE IF SameWord(sort_by, <<"size">>) THEN 0
    ELSE a.start_time - b.start_time

RECURSIVE InsertBackup(_, _, _)
InsertBackup(sorted, b, sort_by) ==
    IF sorted = <<>> THEN <<b>>
    ELSE IF CompareBackups(b, Head(sorted), sort_by) < 0 THEN <<b>> \o sorted
    ELSE <<Head(sorted)>> \o InsertBackup(Tail(sorted), b, sort_by)

RECURSIVE SortedBackups(_, _)
SortedBackups(list, sort_by) ==
    IF list = <<>> THEN <<>>
    ELSE InsertBackup(SortedBackups(SubSeq(list, 1, Len(list) - 1), sort_by), list[Len(list)], sort_by)

Reversed(list) == [i \in 1..Len(list) |-> list[Len(list) + 1 - i]]

\* lines 344-411; records that compare equal keep their order here
sort_backups(list, sort_by, reverse) ==
    IF reverse THEN Reversed(SortedBackups(list, sort_by)) ELSE SortedBackups(list, sort_by)

\* lines 546-566
get_parent_directory(backup_path) ==
    IF LastSlash(backup_path) = 0 THEN <<>> ELSE SubSeq(backup_path, 1, LastSlash(backup_path) - 1)

\* the rows print_backup_table_row is called for: with a limit the loop
\* leaves once the count of this group has reached it
GroupRows(dir_list, limit) ==
    IF limit > 0 /\ Len(dir_list) > limit THEN SubSeq(dir_list, 1, limit) ELSE dir_list

\* lines 512-541, called with a list that is not empty
output_directory_group(dir_list, options) ==
    [count |-> Len(GroupRows(dir_list, options.limit)), rows |-> GroupRows(dir_list, options.limit)]

\* lines 603-634: the parent directories of the records that pass the
\* filters, in the order met; the array holds 100 of them
RECURSIVE DirectoryPaths(_, _, _)
DirectoryPaths(list, options, found) ==
    IF list = <<>> THEN found
    ELSE LET parent_dir == get_parent_directory(Head(list).backup_path)
             fresh == /\ matches_filters(Head(list), options)
                      /\ parent_dir # <<>>
                      /\ \A i \in 1..Len(found) : found[i] # parent_dir
                      /\ Len(found) < 100
         IN  DirectoryPaths(Tail(list), options, IF fresh THEN Append(found, parent_dir) ELSE found)

\* lines 636-655
RECURSIVE InsertPath(_, _)
InsertPath(sorted, d) ==
    IF sorted = <<>> THEN <<d>>
    ELSE IF strcmp(d, Head(sorted)) < 0 THEN <<d>> \o sorted
    ELSE <<Head(sorted)>> \o InsertPath(Tail(sorted), d)

RECURSIVE SortedPaths(_)
SortedPaths(paths) ==
    IF paths = <<>> THEN <<>> ELSE InsertPath(SortedPaths(Tail(paths)), Head(paths))

\* lines 664-691: the copies of the records of one directory
DirList(list, options, dir) ==
    SelectSeq(list, LAMBDA b : matches_filters(b, options)
                               /\ get_parent_directory(b.backup_path) = dir)

\* lines 657-702: the groups in turn, the counts added up
RECURSIVE OutputGroups(_, _, _)
OutputGroups(list, options, directory_paths) ==
    IF directory_paths = <<>> THEN [count |-> 0, rows |-> <<>>]
    ELSE LET dir_list == sort_backups(DirList(list, options, Head(directory_paths)),
                                      options.sort_by, options.reverse)
             dir_stats == output_directory_group(dir_list, options)
             others == OutputGroups(list, options, Tail(directory_paths))
         IN  [count |-> dir_stats.count + others.count, rows |-> dir_stats.rows \o others.rows]

\* lines 584-723 for the table format
output_backups(list, options) ==
    OutputGroups(list, options, SortedPaths(DirectoryPaths(list, options, <<>>)))

(***************************************************************************)
(* cmd_check.c and cmd_info.c: the options of the check and info commands  *)
(***************************************************************************)
CheckDefaults ==
    [backup_dir |-> NullStr, backup_id |-> NullStr, wal_archive |-> NullStr,
     level |-> VALIDATION_LEVEL_STANDARD, skip_wal |-> FALSE]

CheckLongOptions ==
    <<[name |-> "backup-dir", has_arg |-> required_argument, val |-> "B"],
      [name |-> "backup-id", has_arg |-> required_argument, val |-> "i"],
      [name |-> "wal-archive", has_arg |-> required_argument, val |-> "w"],
      [name |-> "level", has_arg |-> required_argument, val |-> "l"],
      [name |-> "skip-wal", has_arg |-> no_argument, val |-> "S"],
      [name |-> "help", has_arg |-> no_argument, val |-> "h"]>>

CheckOptString == <<"B", ":", "i", ":", "w", ":", "l", ":", "h">>

LevelNames == <<<<"basic">>, <<"standard">>, <<"checksums">>, <<"full">>>>

\* the case 'l' of the check command
CheckLevelCase(options, seen, optarg) ==
    IF \E n \in 1..4 : LevelNames[n] = optarg
    THEN ParseGoesOn([options EXCEPT !.level = (CHOOSE n \in 1..4 : LevelNames[n] = optarg) - 1],
                     seen, "l")
    ELSE ParseStops(EXIT_INVALID_ARGUMENTS, options, seen)

CheckCase(options, seen, got) ==
    IF got.c = "?" \/ got.c \in seen THEN ParseStops(EXIT_INVALID_ARGUMENTS, options, seen)
    ELSE IF got.c = "B" THEN ParseGoesOn([options EXCEPT !.backup_dir = got.optarg], seen, "B")
    ELSE IF got.c = "i" THEN ParseGoesOn([options EXCEPT !.backup_id = got.optarg], seen, "i")
    ELSE IF got.c = "w" THEN ParseGoesOn([options EXCEPT !.wal_archive = got.optarg], seen, "w")
    ELSE IF got.c = "l" THEN CheckLevelCase(options, seen, got.optarg)
    ELSE IF got.c = "S" THEN ParseGoesOn([options EXCEPT !.skip_wal = TRUE], seen, "S")
    ELSE IF got.c = "h" THEN ParseStops(EXIT_SUCCESS, options, seen)
    ELSE ParseStops(EXIT_INVALID_ARGUMENTS, options, seen)

RECURSIVE CheckArguments(_, _, _, _)
CheckArgumentsNext(step, got) ==
    IF step.ret # -1 THEN [ret |-> step.ret, opts |-> step.opts]
    ELSE CheckArguments(got.args, got.optind, step.opts, step.seen)

CheckArguments(args, i, options, seen) ==
    LET got == getopt_long(args, i, CheckOptString, CheckLongOptions)
    IN  IF got.c = "-1" THEN [ret |-> -1, opts |-> options]
        ELSE CheckArgumentsNext(CheckCase(options, seen, got), got)

check_parse_arguments(args) == CheckArguments(args, 2, CheckDefaults, {})

\* lines 132-152
check_validate_options(options) ==
    IF options.backup_dir = NullStr THEN EXIT_INVALID_ARGUMENTS
    ELSE IF ~is_directory(options.backup_dir) THEN EXIT_GENERAL_ERROR
    ELSE IF options.wal_archive # NullStr /\ ~is_directory(options.wal_archive)
    THEN EXIT_GENERAL_ERROR
    ELSE EXIT_SUCCESS

InfoDefaults == [backup_path |-> NullStr, backup_dir |-> NullStr, backup_id |-> NullStr]

InfoLongOptions ==
    <<[name |-> "backup-path", has_arg |-> required_argument, val |-> "p"],
      [name |-> "backup-dir", has_arg |-> required_argument, val |-> "B"],
      [name |-> "backup-id", has_arg |-> required_argument, val |-> "i"],
      [name |-> "help", has_arg |-> no_argument, val |-> "h"]>>

InfoOptString == <<"p", ":", "B", ":", "i", ":", "h">>

InfoCase(options, seen, got) ==
    IF got.c = "?" \/ got.c \in seen THEN ParseStops(EXIT_INVALID_ARGUMENTS, options, seen)
    ELSE IF got.c = "p" THEN ParseGoesOn([options EXCEPT !.backup_path = got.optarg], seen, "p")
    ELSE IF got.c = "B" THEN ParseGoesOn([options EXCEPT !.backup_dir = got.optarg], seen, "B")
    ELSE IF got.c = "i" THEN ParseGoesOn([options EXCEPT !.backup_id = got.optarg], seen, "i")
    ELSE IF got.c = "h" THEN ParseStops(EXIT_SUCCESS, options, seen)
    ELSE ParseStops(EXIT_INVALID_ARGUMENTS, options, seen)

RECURSIVE InfoArguments(_, _, _, _)
InfoArgumentsNext(step, got) ==
    IF step.ret # -1 THEN [ret |-> step.ret, opts |-> step.opts]
    ELSE InfoArguments(got.args, got.optind, step.opts, step.seen)

InfoArguments(args, i, options, seen) ==
    LET got == getopt_long(args, i, InfoOptString, InfoLongOptions)
    IN  IF got.c = "-1" THEN [ret |-> -1, opts |-> options]
        ELSE InfoArgumentsNext(InfoCase(options, seen, got), got)

info_parse_arguments(args) == InfoArguments(args, 2, InfoDefaults, {})

\* cmd_info.c, validate_options
info_validate_options(options) ==
    IF options.backup_path = NullStr /\ (options.backup_dir = NullStr \/ options.backup_id = NullStr)
    THEN EXIT_INVALID_ARGUMENTS
    ELSE IF options.backup_path # NullStr /\ ~is_directory(options.backup_path)
    THEN EXIT_GENERAL_ERROR
    ELSE IF options.backup_dir # NullStr /\ ~is_directory(options.backup_dir)
    THEN EXIT_GENERAL_ERROR
    ELSE EXIT_SUCCESS

(***************************************************************************)
(* main.c, and the command mains up to their scan.  The backups that exist *)
(* are the records of `given`, in the order a scan of the root meets them. *)
(***************************************************************************)
NoColorFlag == <<"--", "no-color">>

\* lines 49-57
ColorWanted(line) == \A i \in 2..Len(line) : line[i] # NoColorFlag

\* scan_backup_directory(dir, depth) over the backups that exist: the records
\* at or below dir, no deeper than depth
ScanUnder(world, dir, depth) ==
    SelectSeq(world, LAMBDA b : /\ IsAncestorOrSelf(Resolve(dir), Resolve(b.backup_path))
                                /\ \/ depth = -1
                                   \/ Len(Resolve(b.backup_path)) - Len(Resolve(dir)) <= depth)

Leaves(code) == [ret |-> code, command |-> "none", opts |-> NoOpts]

\* parse_arguments and validate_options of one command: ret = -1 when the
\* command goes on to its scan
Entered(command, parsed, validated) ==
    IF parsed.ret # -1 THEN Leaves(parsed.ret)
    ELSE IF validated # EXIT_SUCCESS THEN Leaves(validated)
    ELSE [ret |-> -1, command |-> command, opts |-> parsed.opts]

cmd_list_entry(args) ==
    Entered("list", list_parse_arguments(args), list_validate_options(list_parse_arguments(args).opts))

cmd_check_entry(args) ==
    Entered("check", check_parse_arguments(args),
            check_validate_options(check_parse_arguments(args).opts))

cmd_info_entry(args) ==
    Entered("info", info_parse_arguments(args), info_validate_options(info_parse_arguments(args).opts))

\* main, lines 59-97, with argv[0] at line[1]
Dispatch(line) ==
    IF Len(line) < 2 THEN Leaves(EXIT_INVALID_ARGUMENTS)
    ELSE IF line[2] \in {<<"--", "version">>, <<"--", "help">>, <<"-", "h">>} THEN Leaves(EXIT_SUCCESS)
    ELSE IF line[2] = <<"list">> THEN cmd_list_entry(Tail(line))
    ELSE IF line[2] = <<"check">> THEN cmd_check_entry(Tail(line))
    ELSE IF line[2] = <<"info">> THEN cmd_info_entry(Tail(line))
    ELSE Leaves(EXIT_INVALID_ARGUMENTS)

\* the scan each command starts with
CommandScan(world, d) ==
    IF d.command = "list" THEN ScanUnder(world, d.opts.backup_dir, d.opts.max_depth)
    ELSE IF d.command = "check" THEN ScanUnder(world, d.opts.backup_dir, -1)
    ELSE IF d.opts.backup_path # NullStr THEN ScanUnder(world, d.opts.backup_path, 0)
    ELSE ScanUnder(world, d.opts.backup_dir, -1)

NextPc(d) ==
    IF d.ret # -1 THEN "main_done"
    ELSE IF d.command = "list" THEN "list_output"
    ELSE IF d.command = "check" THEN "check_start"
    ELSE "info_show"

Main ==
    /\ pc = "main"
    /\ use_color' = ColorWanted(argv)
    /\ pc' = NextPc(Dispatch(argv))
    /\ IF Dispatch(argv).ret # -1
       THEN exit_code' = Dispatch(argv).ret /\ UNCHANGED <<opts, backups>>
       ELSE /\ opts' = Dispatch(argv).opts
            /\ backups' = CommandScan(given, Dispatch(argv))
            /\ UNCHANGED exit_code
    /\ UNCHANGED <<argv, printed, stats, algVars, current, backup_count, backups_validated,
                   backups_skipped, total_errors, total_warnings, validation_log, verdict,
                   fsVars, scanVars, valVars, walVars>>

\* cmd_list_main, lines 781-820; with the json and yaml formats
\* output_backups calls itself with the same arguments and never returns
ListOutput ==
    /\ pc = "list_output"
    /\ IF backups = <<>>
       THEN /\ exit_code' = EXIT_NO_BACKUPS_FOUND
            /\ pc' = "main_done"
            /\ UNCHANGED <<printed, stats>>
       ELSE IF opts.format # <<"table">>
       THEN /\ pc' = "list_recursing"
            /\ UNCHANGED <<printed, stats, exit_code>>
       ELSE /\ printed' = output_backups(sort_backups(backups, opts.sort_by, opts.reverse), opts).rows
            /\ stats' = [count |-> output_backups(sort_backups(backups, opts.sort_by, opts.reverse),
                                                  opts).count]
            /\ exit_code' = EXIT_SUCCESS
            /\ pc' = "main_done"
    /\ UNCHANGED <<argv, use_color, algVars, backups, opts, current, backup_count,
                   backups_validated, backups_skipped, total_errors, total_warnings,
                   validation_log, verdict, fsVars, scanVars, valVars, walVars>>

\* find_backup_by_id: the first record of that name, if any
FoundById(list, backup_id) == SelectSeq(list, LAMBDA b : b.backup_id = backup_id)

\* cmd_info_main after the scan: the record shown
InfoShow ==
    /\ pc = "info_show"
    /\ LET found == IF opts.backup_path # NullStr THEN backups
                    ELSE FoundById(backups, opts.backup_id)
       IN  IF found = <<>>
           THEN exit_code' = EXIT_NO_BACKUPS_FOUND /\ UNCHANGED printed
           ELSE exit_code' = EXIT_SUCCESS /\ printed' = <<Head(found)>>
    /\ pc' = "main_done"
    /\ UNCHANGED <<argv, use_color, stats, algVars, backups, opts, current, backup_count,
                   backups_validated, backups_skipped, total_errors, total_warnings,
                   validation_log, verdict, fsVars, scanVars, valVars, walVars>>

(***************************************************************************)
(* Inputs of main: command lines, with and without --no-color, over a      *)
(* backup root with two node directories.                                  *)
(***************************************************************************)
BackupRoot == <<"/", "backups">>

CliFs ==
    [dirs |-> {<<>>, <<"backups">>}
              \cup {<<"backups", n>> : n \in {"node1", "node2"}}
              \cup {<<"backups", n, b>> : n \in {"node1", "node2"}, b \in {"b1", "b2"}},
     files |-> {}, locked |-> {}, content |-> <<>>, mtime |-> 0]

\* a record as a scan builds it for the backup directory b of node n
ListedRecord(id, n, b, tool, st, t) ==
    [ZeroBackupInfo EXCEPT !.backup_id = id, !.status = st, !.tool = tool,
                           !.backup_path = BackupRoot \o <<"/", n, "/", b>>,
                           !.start_time = t, !.end_time = t + 1,
                           !.start_lsn = GoodStartLsn, !.stop_lsn = GoodStopLsn,
                           !.timeline = 1, !.pg_version = 160000]

\* the backups there can be, in scan order
ListedPool ==
    <<ListedRecord(<<"A">>, "node1", "b1", BACKUP_TOOL_PG_PROBACKUP, BACKUP_STATUS_OK, 1),
      ListedRecord(<<"B">>, "node1", "b2", BACKUP_TOOL_PG_PROBACKUP, BACKUP_STATUS_ERROR, 3),
      ListedRecord(<<"C">>, "node2", "b1", BACKUP_TOOL_PG_BASEBACKUP, BACKUP_STATUS_OK, 5),
      ListedRecord(<<"A">>, "node2", "b2", BACKUP_TOOL_PG_BASEBACKUP, BACKUP_STATUS_CORRUPT, 7)>>

\* the records of the pool at the places in S, in the order of the pool
Picked(S) == SelectSeq(ListedPool, LAMBDA b : \E i \in S : ListedPool[i] = b)

Worlds == {Picked(S) : S \in {T \in SUBSET (1..Len(ListedPool)) : Cardinality(T) <= MaxBackups}}

Program == <<"pg_backup_auditor">>

DirOption == <<<<"-", "B">>, BackupRoot>>

ListLines ==
    {<<<<"list">>>> \o DirOption,
     <<<<"list">>>> \o DirOption \o <<<<"--", "limit", "=", "1">>>>,
     <<<<"list">>, <<"--", "backup-dir", "=">> \o BackupRoot, <<"-", "n">>, <<"2">>>>,
     <<<<"list">>>> \o DirOption \o <<<<"--", "status", "=", "OK">>>>,
     <<<<"list">>>> \o DirOption \o <<<<"-", "t">>, <<"pg_probackup">>, <<"-", "r">>>>,
     <<<<"list">>>> \o DirOption \o <<<<"--", "limit", "=", "-", "1">>>>,
     <<<<"list">>>> \o DirOption \o <<<<"--", "max-depth", "=", "1">>, <<"--", "sort-by", "=", "name">>>>,
     <<<<"list">>>> \o DirOption \o <<<<"--", "format", "=", "json">>>>,
     <<<<"list">>>> \o DirOption \o DirOption,
     <<<<"list">>, <<"-", "B">>, <<"/", "missing">>>>,
     <<<<"list">>>>,
     <<<<"list">>, <<"--", "help">>>>}

CheckLines ==
    {<<<<"check">>>> \o DirOption,
     <<<<"check">>>> \o DirOption \o <<<<"--", "level", "=", "basic">>, <<"-", "i">>, <<"A">>>>,
     <<<<"check">>>> \o DirOption \o <<<<"--", "skip-wal">>, <<"--", "backup-id", "=", "C">>>>,
     <<<<"check">>>> \o DirOption \o <<<<"--", "wal-archive", "=", "/", "missing">>>>,
     <<<<"check">>>> \o DirOption \o <<<<"--", "level", "=", "deep">>>>}

InfoLines ==
    {<<<<"info">>>> \o DirOption \o <<<<"-", "i">>, <<"A">>>>,
     <<<<"info">>, <<"--", "backup-path", "=">> \o BackupRoot \o <<"/", "node1", "/", "b1">>>>,
     <<<<"info">>, <<"-", "i">>, <<"A">>>>}

GlobalLines == {<<>>, <<<<"--", "version">>>>, <<<<"-", "h">>>>, <<<<"restore">>>>}

CommandLines == {<<Program>> \o l : l \in ListLines \cup CheckLines \cup InfoLines \cup GlobalLines}

\* the line with --no-color put in as argv[pos - 1]
WithNoColor(line, pos) == SubSeq(line, 1, pos - 1) \o <<NoColorFlag>> \o SubSeq(line, pos, Len(line))

\* right after the command word, or at the end of the line
FlagPlaces(line) == {3, Len(line) + 1}

InitMain ==
    /\ pc = "main"
    /\ fs = CliFs
    /\ cwd = <<>>
    /\ IdleScan
    /\ backup = ZeroBackupInfo
    /\ result = NoResult
    /\ wal_info = WalInfoOf({})
    /\ IdleWalLocals
    /\ IdleCheck
    /\ lsn_str = <<>>
    /\ lsn_val = ZeroLsn
    /\ wal_name = <<>>
    /\ seg_args = [lsn |-> 0, timeline |-> 0, wal_segment_size |-> 0]
    /\ seg_out = NoSeg
    /\ ret = "none"
    /\ given \in Worlds
    /\ argv \in CommandLines
               \cup UNION {{WithNoColor(l, p) : p \in 2..(Len(l) + 1)} : l \in CommandLines}
    /\ use_color = TRUE
    /\ printed = <<>>
    /\ stats = [count |-> 0]

NextMain == Main \/ ListOutput \/ InfoShow \/ CheckStart \/ CheckLoop \/ CheckSummary

SpecMain == InitMain /\ [][NextMain]_vars

(***************************************************************************)
(* Properties of the command line.                                         *)
(***************************************************************************)
\* the list command has printed its tables and the total
ListFinished == pc = "main_done" /\ Dispatch(argv).command = "list"

\* C22: with --limit=N and N > 0 the list command prints at most N backups
\* in total, and the "Total backups found" count is at most N, however many
\* parent directories the backups fall into.
C22_LimitCapsTheTotal ==
    (ListFinished /\ opts.limit > 0) =>
        (Len(printed) <= opts.limit /\ stats.count <= opts.limit)

\* the run of a command line is over
MainFinished == pc \in {"main_done", "check_done"}

\* the backups the run handled: the rows shown and the records checked
Processed == [shown |-> printed, checked |-> backup_count]

\* C23: --no-color only disables colour: a valid command line that ran
\* without it ends with the same exit code, and handles the same backups,
\* when --no-color is added after the command word or at the end.  The run
\* with the flag either leaves with a code before its scan, having handled
\* nothing, or starts the same command with the same options.
C23_NoColorOnlyDisablesColour ==
    (MainFinished /\ ColorWanted(argv) /\ Dispatch(argv).ret = -1) =>
        \A p \in FlagPlaces(argv) :
            IF Dispatch(WithNoColor(argv, p)).ret # -1
            THEN /\ Dispatch(WithNoColor(argv, p)).ret = exit_code
                 /\ Processed = [shown |-> <<>>, checked |-> 0]
            ELSE /\ Dispatch(WithNoColor(argv, p)).command = Dispatch(argv).command
                 /\ Dispatch(WithNoColor(argv, p)).opts = opts

(***************************************************************************)
(* Inputs of pg_probackup_read_metadata: control files that name the       *)
(* timeline under one or both of its keys.                                 *)
(***************************************************************************)
ControlPath == <<"/", "backups", "/", "b1">>

ControlFs ==
    [dirs |-> {<<>>, <<"backups">>, <<"backups", "b1">>},
     files |-> {<<"backups", "b1", "backup.control">>},
     locked |-> {},
     content |-> [f \in {<<"backups", "b1", "backup.control">>} |-> "given"],
     mtime |-> 0]

\* the line "key = n" for a timeline n
TimelineLine(key, n) == [key |-> key, sep |-> "=", value |-> <<" ">> \o Dec(n) \o <<"\n">>]

TimelineKeys == {"timeline", "timelineid"}

\* the timeline lines of a file: one line, or two lines in either order
TimelineParts ==
    {<<TimelineLine(k, n)>> : k \in TimelineKeys, n \in 1..(MaxTimeline + 1)}
    \cup {<<TimelineLine(k1, n1), TimelineLine(k2, n2)>> :
              k1 \in TimelineKeys, k2 \in TimelineKeys,
              n1 \in 1..(MaxTimeline + 1), n2 \in 1..(MaxTimeline + 1)}

ControlHeads ==
    {<<>>, <<[key |-> "#Configuration", sep |-> "", value |-> <<"\n">>]>>,
     <<[key |-> "status", sep |-> "=", value |-> <<" ", "OK", "\n">>]>>}

ControlTails == {<<>>, <<[key |-> "server-version", sep |-> "=", value |-> <<" ", "1", "6", "\n">>]>>}

ControlFiles == {h \o p \o t : h \in ControlHeads, p \in TimelineParts, t \in ControlTails}

InitControl ==
    /\ pc = "control_start"
    /\ fs = ControlFs
    /\ cwd = <<>>
    /\ IdleScan
    /\ backup = ZeroBackupInfo
    /\ result = NoResult
    /\ wal_info = WalInfoOf({})
    /\ IdleWalLocals
    /\ IdleCheck
    /\ IdleCli
    /\ lsn_str = <<>>
    /\ lsn_val = ZeroLsn
    /\ wal_name = <<>>
    /\ seg_args = [lsn |-> 0, timeline |-> 0, wal_segment_size |-> 0]
    /\ seg_out = NoSeg
    /\ ret = "none"
    /\ given \in ControlFiles

\* pg_probackup_read_metadata(backup_path, info) on a zeroed record
ReadControl ==
    /\ pc = "control_start"
    /\ \E value \in UninitializedValues :
          /\ backup' = pg_probackup_read_metadata(ControlPath, ZeroBackupInfo, value).info
          /\ ret' = pg_probackup_read_metadata(ControlPath, ZeroBackupInfo, value).status
    /\ pc' = "control_done"
    /\ UNCHANGED <<cliVars, lsn_str, lsn_val, wal_name, seg_args, seg_out, given, fsVars,
                   scanVars, result, walVars, checkVars>>

NextControl == ReadControl

SpecControl == InitControl /\ [][NextControl]_vars

\* the places of the lines of the file under this key
LinesUnder(key) == {i \in 1..Len(given) : given[i].key = key /\ given[i].sep = "="}

\* the number a line gives: the decimal value of its text
NumberAt(i) == DecValue(SelectSeq(given[i].value, IsDecDigit))

HasBothKeys == LinesUnder("timeline") # {} /\ LinesUnder("timelineid") # {}

\* C24 as claimed: with both keys in the file the timeline of the record is
\* the value under timelineid, whichever line comes first.
C24_TimelineIdTakesPrecedence ==
    (pc = "control_done" /\ HasBothKeys) =>
        \E i \in LinesUnder("timelineid") : backup.timeline = NumberAt(i)

\* the last line of the file under either key
LastTimelineLine ==
    CHOOSE i \in LinesUnder("timeline") \cup LinesUnder("timelineid") :
        \A j \in LinesUnder("timeline") \cup LinesUnder("timelineid") : j <= i

\* C24, amended: with both keys in the file, each with a value, the timeline
\* of the record is the value of whichever of the two lines comes later.
C24_LaterTimelineLineWins ==
    (pc = "control_done" /\ HasBothKeys) => backup.timeline = NumberAt(LastTimelineLine)

\* timelineid = 2 comes first, timeline = 1 after it, and the record is on 1
C24_Witness ==
    /\ pc = "control_done"
    /\ HasBothKeys
    /\ \E i \in LinesUnder("timelineid") : \E j \in LinesUnder("timeline") :
          i < j /\ NumberAt(i) = 2 /\ NumberAt(j) = 1
    /\ backup.timeline = 1

(***************************************************************************)
(* The halves of an LSN text and the words of its value.                   *)
(***************************************************************************)
\* the texts parse_lsn accepts
AcceptedTexts == {t \in LsnTexts : parse_lsn(t).ok}

\* C25: for every text parse_lsn accepts, the upper word of the result is
\* determined by the text before the slash alone and the lower word by the
\* text after it alone; when both halves are hex digits within a word, the
\* words are the values of the halves; no digit of a longer half changes
\* the other word.
C25_HalvesAreIndependent ==
    pc = "format_back" =>
        /\ \A t \in AcceptedTexts :
              /\ UpperHalf(t) = UpperHalf(given) => parse_lsn(t).lsn.hi = lsn_val.hi
              /\ LowerHalf(t) = LowerHalf(given) => parse_lsn(t).lsn.lo = lsn_val.lo
        /\ (IsLsnText(given) /\ HalvesFitWords(given)) =>
              lsn_val = [hi |-> HexValue(UpperHalf(given)), lo |-> HexValue(LowerHalf(given))]

(***************************************************************************)
(* check_wal_availability over the whole range of LSNs: from the first     *)
(* byte to the last LSN the modelled width holds, whose segment has the    *)
(* largest log_id and the largest seg_id.                                  *)
(***************************************************************************)
\* the largest XLogRecPtr at the modelled width
MaxLsn == 2 * (LsnWord - 1) + 1

RangeLsns == {0, WalSegSize - 1, WalSegSize, 3 * WalSegSize, MaxLsn - WalSegSize, MaxLsn}

RangeBackups ==
    {[ZeroBackupInfo EXCEPT !.backup_id = <<"test-backup">>, !.start_lsn = a,
                            !.stop_lsn = b, !.timeline = t] :
        a \in RangeLsns, b \in RangeLsns, t \in Timelines}

\* the archive holding the first n segments of timeline 1, in order
FirstSegments(n) ==
    [segment_count |-> n,
     segments |-> [i \in 1..n |-> lsn_to_seg((i - 1) * WalSegSize, 1, WalSegSize)]]

\* no segment, the first four segments, every segment of timeline 1
RangeArchives == {FirstSegments(n) : n \in {0, 4, MaxLsn \div WalSegSize + 1}}

InitWalRange ==
    /\ pc = "wal_entry"
    /\ fs = EmptyFs
    /\ cwd = <<>>
    /\ IdleScan
    /\ backup \in RangeBackups
    /\ wal_info \in RangeArchives
    /\ IdleWalLocals
    /\ IdleAlg
    /\ IdleCli
    /\ result = NoResult
    /\ IdleCheck

SpecWalRange == InitWalRange /\ [][NextWal]_vars

\* the function runs to its return once called
SpecWalLive == InitWalRange /\ [][NextWal]_vars /\ WF_vars(NextWal)

\* the place of a segment in the sequence of all segments
SegmentNumber(seg) == seg.log_id * SegIdModulus + seg.seg_id

\* the loop has been entered with the start segment not after the stop segment
RangeNotEmpty == SegmentNumber(start_seg) <= SegmentNumber(stop_seg)

\* C26: the segment enumeration loop terminates for every pair of LSNs and
\* every inventory, also across the wrap of seg_id with its carry into
\* log_id; each iteration advances the position by exactly one segment and
\* the loop stops right after the stop segment.
C26_EnumerationTerminates ==
    /\ <>(pc = "wal_done")
    /\ [][CheckWalLoop => SegmentNumber(current_seg') = SegmentNumber(current_seg) + 1]_vars
    /\ []((pc = "wal_done" /\ HasLsn(backup) /\ RangeNotEmpty) =>
              SegmentNumber(current_seg) = SegmentNumber(stop_seg) + 1)

\* the enumeration has run from the first segment to the last one, across
\* every wrap of seg_id, and returned
C26_Witness ==
    /\ pc = "wal_done"
    /\ backup.start_lsn = 0
    /\ backup.stop_lsn = MaxLsn
    /\ stop_seg.seg_id = SegIdModulus - 1
    /\ current_seg = [timeline |-> backup.timeline, log_id |-> stop_seg.log_id + 1, seg_id |-> 0]

\* the messages of a result
Messages(r) == {r.errors[i] : i \in 1..Len(r.errors)}

StopBeforeStart(b) == b.stop_lsn \div WalSegSize < b.start_lsn \div WalSegSize

\* C28: when the stop LSN lies in an earlier segment than the start LSN,
\* stop_lsn = 0 included, check_wal_availability tests no segment and
\* returns status OK with no error and no warning, whatever the inventory.
C28_ReversedRangeIsOk ==
    (pc = "wal_done" /\ StopBeforeStart(backup)) =>
        /\ current_seg = start_seg
        /\ missing_count = 0
        /\ result = [status |-> BACKUP_STATUS_OK, error_count |-> 0, warning_count |-> 0,
                     errors |-> <<>>, warnings |-> <<>>]

\* a record with a start LSN and no stop LSN, checked against an empty archive
C28_Witness ==
    /\ pc = "wal_done"
    /\ backup.start_lsn = 3 * WalSegSize
    /\ backup.stop_lsn = 0
    /\ wal_info.segment_count = 0
    /\ result.status = BACKUP_STATUS_OK
    /\ result.error_count = 0

(***************************************************************************)
(* The manifest fallback of the streaming dialect.  One backup directory   *)
(* /backups/inst/B1 is scanned by the adapter that detects it and the      *)
(* record is validated; `given` is the reading of the clock (the broken-   *)
(* down local time of time(NULL)) and fs.mtime the st_mtime of the         *)
(* directory.                                                              *)
(***************************************************************************)
FallbackPath == AbsolutePath(BackupDir)

\* st_mtime of the backup directory: the epoch, and times before, at and
\* after the first reading of the clock
ModificationTimes ==
    {0, mktime(<<2024, 1, 8, 10, 6, 45>>), mktime(<<2024, 2, 1, 0, 0, 0>>),
     mktime(<<2024, 2, 15, 0, 0, 0>>)}

\* directories of the streaming dialect only
FallbackDirChoices ==
    {dE \in BackupDirChoices : "backup.control" \notin dE /\ "database" \notin dE}

FallbackScenarios == {sc \in ContentScenarios : ~sc.locked /\ "lockdir" \notin DOMAIN sc}

FallbackFileSystems ==
    {[ScanFs(dE, {}, sc) EXCEPT !.mtime = mt] :
        dE \in FallbackDirChoices, sc \in FallbackScenarios, mt \in ModificationTimes}

InitFallback ==
    /\ pc = "fallback_scan"
    /\ fs \in FallbackFileSystems
    /\ cwd = <<>>
    /\ backup_dir = FallbackPath
    /\ pg_basebackup_detect(backup_dir)
    /\ max_depth = -1
    /\ stack = <<>>
    /\ visited = <<>>
    /\ backup = ZeroBackupInfo
    /\ result = NoResult
    /\ wal_info = WalInfoOf({})
    /\ IdleWalLocals
    /\ IdleCheck
    /\ IdleCli
    /\ lsn_str = <<>>
    /\ lsn_val = ZeroLsn
    /\ wal_name = <<>>
    /\ seg_args = [lsn |-> 0, timeline |-> 0, wal_segment_size |-> 0]
    /\ seg_out = NoSeg
    /\ ret = "none"
    /\ given \in ClockTimes

\* backup = scan_single_directory(backup_dir), the clock reading `given`
FallbackScan ==
    /\ pc = "fallback_scan"
    /\ backup' = scan_single_directory(backup_dir, given, <<>>)[1]
    /\ pc' = "meta_entry"
    /\ UNCHANGED <<cliVars, algVars, fsVars, scanVars, result, walVars, checkVars>>

NextFallback == FallbackScan \/ ValidateMetadata

SpecFallback == InitFallback /\ [][NextFallback]_vars

\* pg_basebackup_read_metadata took the manifest branch for the directory
ViaManifest ==
    /\ ~fopen(path_join(backup_dir, <<"backup_label">>))
    /\ ~is_tar_format(backup_dir)

\* the record of the scanned directory was built on the manifest branch
FallbackBuilt == pc \in {"meta_entry", "meta_done"} /\ ViaManifest

\* parse_backup_manifest found a Timeline or a Start-LSN
ManifestGaveRange ==
    parse_backup_manifest(path_join(backup_dir, <<"backup_manifest">>),
                          ZeroBackupInfo, given).status = STATUS_OK

ModifiedBeforeScan == fs.mtime < mktime(given)

\* the result carries the "Invalid timestamps" error
OrderingReported(r) ==
    \E i \in 1..Len(r.errors) : r.errors[i][1] = "Invalid timestamps: start_time ("

\* C29 as stated: a record built through the manifest fallback has start_time
\* = the clock reading of the scan and end_time = the directory's modification
\* time, and whenever the directory was modified before the scan start_time >=
\* end_time holds and validate_backup_metadata reports the timestamp-ordering
\* error and status ERROR
C29_FallbackAlwaysFlagged ==
    /\ FallbackBuilt =>
          /\ backup.start_time = mktime(given)
          /\ backup.end_time = fs.mtime
    /\ (FallbackBuilt /\ ModifiedBeforeScan) => backup.start_time >= backup.end_time
    /\ (pc = "meta_done" /\ FallbackBuilt /\ ModifiedBeforeScan) =>
          /\ OrderingReported(result)
          /\ result.status = BACKUP_STATUS_ERROR

\* C29 amended: a record built through the manifest fallback from a manifest
\* that gives a Timeline or a Start-LSN has start_time = the clock reading of
\* the scan and end_time = the directory's modification time; whenever that
\* modification time is positive and before the scan, start_time >= end_time
\* holds and validate_backup_metadata reports the timestamp-ordering error and
\* status ERROR
C29_FallbackFlaggedWhenTimesPresent ==
    /\ (FallbackBuilt /\ ManifestGaveRange) =>
          /\ backup.start_time = mktime(given)
          /\ backup.end_time = fs.mtime
    /\ (FallbackBuilt /\ ManifestGaveRange /\ ModifiedBeforeScan) =>
          backup.start_time >= backup.end_time
    /\ (pc = "meta_done" /\ FallbackBuilt /\ ManifestGaveRange
            /\ ModifiedBeforeScan /\ fs.mtime > 0) =>
          /\ OrderingReported(result)
          /\ result.status = BACKUP_STATUS_ERROR

C29_Witness ==
    /\ pc = "meta_done"
    /\ FallbackBuilt
    /\ ManifestGaveRange
    /\ ModifiedBeforeScan
    /\ fs.mtime > 0
    /\ backup.start_time = mktime(given)
    /\ OrderingReported(result)
    /\ result.status = BACKUP_STATUS_ERROR

(***************************************************************************)
(* The check command when no record is validated.                          *)
(***************************************************************************)
\* the scan found records and the loop validated none of them: every record
\* the id filter lets through has status ERROR or CORRUPT, or it lets none
\* through
NoneValidated == CheckFinished /\ ValidatedIdx = {}

\* C30: when the scan finds at least one backup but none is validated, the
\* check command reports zero errors and zero warnings and returns exit code
\* 0, neither validation-failed (2) nor no-backups-found (3)
C30_NothingValidatedIsSuccess ==
    NoneValidated =>
        /\ backups_validated = 0
        /\ validation_log = <<>>
        /\ total_errors = 0
        /\ total_warnings = 0
        /\ exit_code = EXIT_SUCCESS
        /\ exit_code # EXIT_VALIDATION_FAILED
        /\ exit_code # EXIT_NO_BACKUPS_FOUND

\* the filter lets through one ERROR record and rejects a record whose
\* validation would have reported an error
C30_Witness ==
    /\ NoneValidated
    /\ opts.backup_id = <<"A">>
    /\ opts.level >= VALIDATION_LEVEL_STANDARD
    /\ Len(backups) = 2
    /\ backups[1].backup_id = <<"A">>
    /\ backups[1].status = BACKUP_STATUS_ERROR
    /\ backups[2].backup_id = <<"B">>
    /\ backups[2].status = BACKUP_STATUS_OK
    /\ validate_backup_metadata(backups[2]).error_count > 0
    /\ backups_skipped = 1
    /\ exit_code = EXIT_SUCCESS
====
